---------------------------- MODULE Spec2Model ----------------------------
(***************************************************************************)
(* Heimdall sandbox supervisor: path validation, the file tools of         *)
(* PyodideManager, the host <-> virtual filesystem syncs, SecureFs, the    *)
(* workspace quota and the Python worker supervisor.                       *)
(*                                                                         *)
(* Strings are sequences of tokens.  A token is "/", "." or a run of       *)
(* ordinary characters ("workspace", "etc", "a"): the string operations    *)
(* of the source (startsWith, includes, slice, normalize) act on these     *)
(* sequences exactly as they act on characters.  A host path is a sequence *)
(* of segment names below the host's "/"; a name is the concatenation of   *)
(* the tokens of one segment.                                              *)
(***************************************************************************)
EXTENDS Integers, Sequences, FiniteSets, TLC

(***************************************************************************)
(* Bounds of the model.                                                    *)
(***************************************************************************)
MaxLen == 6

(***************************************************************************)
(* Configuration (src/config/constants.ts).                                *)
(***************************************************************************)
SEP == "/"

VIRTUAL_WORKSPACE == <<"/", "workspace">>

WORKSPACE_DIR == <<"ws">>

(***************************************************************************)
(* String helpers: String.prototype.startsWith / includes.                 *)
(***************************************************************************)
StartsWith(s, prefix) ==
    /\ Len(s) >= Len(prefix)
    /\ SubSeq(s, 1, Len(prefix)) = prefix

IncludesDotDot(s) == \E i \in 1..(Len(s) - 1) : s[i] = "." /\ s[i + 1] = "."

\* F applied to the value v: binds a computed value to a name, as a const does.
With(v, F(_)) == F(v)

RECURSIVE Cat(_)
Cat(s) == IF s = <<>> THEN "" ELSE Head(s) \o Cat(Tail(s))

(***************************************************************************)
(* path.posix.normalize and path.join, as the source calls them.           *)
(* SplitSegs cuts a token string at every "/" (empty segments kept);       *)
(* NormSegs is normalizeString: "" and "." are skipped, ".." removes the   *)
(* last kept segment, or is kept when nothing is left and the path is      *)
(* relative, or dropped when the path is absolute.                         *)
(***************************************************************************)
RECURSIVE SplitFrom(_, _, _)
SplitFrom(s, i, cur) ==
    IF i > Len(s) THEN <<cur>>
    ELSE IF s[i] = SEP THEN <<cur>> \o SplitFrom(s, i + 1, <<>>)
    ELSE SplitFrom(s, i + 1, Append(cur, s[i]))

SplitSegs(s) == SplitFrom(s, 1, <<>>)

DOTDOT == <<".", ".">>

RECURSIVE NormFrom(_, _, _, _)
NormFrom(segs, i, acc, allowAboveRoot) ==
    IF i > Len(segs) THEN acc
    ELSE LET g == segs[i] IN
         IF g = <<>> \/ g = <<".">> THEN NormFrom(segs, i + 1, acc, allowAboveRoot)
         ELSE IF g = DOTDOT THEN
              IF acc # <<>> /\ acc[Len(acc)] # DOTDOT
              THEN NormFrom(segs, i + 1, SubSeq(acc, 1, Len(acc) - 1), allowAboveRoot)
              ELSE IF allowAboveRoot
                   THEN NormFrom(segs, i + 1, Append(acc, g), allowAboveRoot)
                   ELSE NormFrom(segs, i + 1, acc, allowAboveRoot)
         ELSE NormFrom(segs, i + 1, Append(acc, g), allowAboveRoot)

NormSegs(segs, allowAboveRoot) == NormFrom(segs, 1, <<>>, allowAboveRoot)

RECURSIVE JoinSegs(_)
JoinSegs(segs) ==
    IF segs = <<>> THEN <<>>
    ELSE IF Len(segs) = 1 THEN segs[1]
    ELSE segs[1] \o <<SEP>> \o JoinSegs(Tail(segs))

Normalize(s) ==
    IF s = <<>> THEN <<".">>
    ELSE LET isAbsolute == s[1] = SEP
             trailingSeparator == s[Len(s)] = SEP
         IN  With(JoinSegs(NormSegs(SplitSegs(s), ~isAbsolute)), LAMBDA body :
             IF body = <<>>
             THEN IF isAbsolute THEN <<SEP>>
                  ELSE IF trailingSeparator THEN <<".", SEP>> ELSE <<".">>
             ELSE (IF isAbsolute THEN <<SEP>> ELSE <<>>)
                  \o (IF trailingSeparator THEN Append(body, SEP) ELSE body))

RECURSIVE Names(_)
Names(segs) == IF segs = <<>> THEN <<>> ELSE <<Cat(Head(segs))>> \o Names(Tail(segs))

\* path.join(hostDir, rel): the segments of hostDir followed by those of the token
\* string rel, normalized together (hostDir is absolute).
RECURSIVE JoinWalk(_, _, _)
JoinWalk(acc, relSegs, i) ==
    IF i > Len(relSegs) THEN acc
    ELSE IF relSegs[i] = DOTDOT
         THEN JoinWalk(IF acc = <<>> THEN acc ELSE SubSeq(acc, 1, Len(acc) - 1), relSegs, i + 1)
         ELSE JoinWalk(Append(acc, Cat(relSegs[i])), relSegs, i + 1)

PathJoin(hostDir, rel) == JoinWalk(hostDir, NormSegs(SplitSegs(rel), TRUE), 1)

(***************************************************************************)
(* PyodideManager.validatePath and virtualToHostPath.                      *)
(***************************************************************************)
ERR_TRAVERSAL == "Invalid path: Path traversal detected. Path must be within /workspace"

ERR_DOTDOT == "Invalid path: Path contains '..' after normalization"

InWorkspacePrefix(normalized) ==
    \/ StartsWith(normalized, VIRTUAL_WORKSPACE \o <<SEP>>)
    \/ normalized = VIRTUAL_WORKSPACE

FullPath(filePath) ==
    IF StartsWith(filePath, <<SEP>>) THEN filePath
    ELSE VIRTUAL_WORKSPACE \o <<SEP>> \o filePath

\* validatePath without its startsWith test.
validatePathUnchecked(filePath) ==
    With(Normalize(FullPath(filePath)), LAMBDA normalized :
        IF IncludesDotDot(normalized)
        THEN [ok |-> FALSE, path |-> <<>>, error |-> ERR_DOTDOT]
        ELSE [ok |-> TRUE, path |-> normalized, error |-> ""])

validatePath(filePath) ==
    With(Normalize(FullPath(filePath)), LAMBDA normalized :
        IF ~InWorkspacePrefix(normalized)
        THEN [ok |-> FALSE, path |-> <<>>, error |-> ERR_TRAVERSAL]
        ELSE IF IncludesDotDot(normalized)
        THEN [ok |-> FALSE, path |-> <<>>, error |-> ERR_DOTDOT]
        ELSE [ok |-> TRUE, path |-> normalized, error |-> ""])

virtualToHostPath(virtualPath) ==
    IF virtualPath = VIRTUAL_WORKSPACE THEN WORKSPACE_DIR
    ELSE IF StartsWith(virtualPath, VIRTUAL_WORKSPACE \o <<SEP>>)
    THEN PathJoin(WORKSPACE_DIR,
                  SubSeq(virtualPath, Len(VIRTUAL_WORKSPACE) + 2, Len(virtualPath)))
    ELSE PathJoin(WORKSPACE_DIR, virtualPath)


(***************************************************************************)
(* The host filesystem: a function from the absolute paths that exist      *)
(* (sequences of names; the host's "/" is <<>> and always a directory) to  *)
(* nodes.  A symlink's target is a sequence of names, absolute or relative *)
(* to the directory holding the link; ".." names the parent.               *)
(***************************************************************************)
NoContent == [tag |-> "", len |-> 0]

FileNode(c) == [kind |-> "file", content |-> c, abs |-> TRUE, target |-> <<>>]

DirNode == [kind |-> "dir", content |-> NoContent, abs |-> TRUE, target |-> <<>>]

LinkNode(isAbs, t) == [kind |-> "link", content |-> NoContent, abs |-> isAbs, target |-> t]

Dirname(p) == IF p = <<>> THEN <<>> ELSE SubSeq(p, 1, Len(p) - 1)

Basename(p) == p[Len(p)]

IsPrefix(a, b) == Len(a) <= Len(b) /\ SubSeq(b, 1, Len(a)) = a

Exists(fs, p) == p = <<>> \/ p \in DOMAIN fs

NodeAt(fs, p) == IF p = <<>> THEN DirNode ELSE fs[p]

Children(fs, d) == {p \in DOMAIN fs : Len(p) = Len(d) + 1 /\ IsPrefix(d, p)}

\* Symlinks followed while resolving one path before ELOOP.
MAXSYMLINKS == 4

Ok(p) == [ok |-> TRUE, path |-> p, code |-> ""]

Fail(c) == [ok |-> FALSE, path |-> <<>>, code |-> c]

\* fs.promises.realpath: every symlink of the path resolved, the last one included.
RECURSIVE Resolve(_, _, _, _)
Resolve(fs, cur, rest, fuel) ==
    IF rest = <<>> THEN Ok(cur)
    ELSE LET h == rest[1]
             next == Append(cur, rest[1])
         IN  IF h = ".." THEN Resolve(fs, Dirname(cur), Tail(rest), fuel)
             ELSE IF ~Exists(fs, next) THEN Fail("ENOENT")
             ELSE IF fs[next].kind = "link"
                  THEN IF fuel = 0 THEN Fail("ELOOP")
                       ELSE Resolve(fs, IF fs[next].abs THEN <<>> ELSE cur,
                                    fs[next].target \o Tail(rest), fuel - 1)
             ELSE IF fs[next].kind = "file" /\ Tail(rest) # <<>> THEN Fail("ENOTDIR")
             ELSE Resolve(fs, next, Tail(rest), fuel)

Realpath(fs, p) == Resolve(fs, <<>>, p, MAXSYMLINKS)

\* The place of path p itself, symlinks of its directory resolved and p's own
\* last component not followed (what lstat, unlink, rmdir and symlink act on).
LPath(fs, p) ==
    IF p = <<>> THEN Ok(<<>>)
    ELSE With(Realpath(fs, Dirname(p)), LAMBDA d :
             IF ~d.ok THEN d
             ELSE IF NodeAt(fs, d.path).kind # "dir" THEN Fail("ENOTDIR")
             ELSE IF Basename(p) = ".." THEN Ok(Dirname(d.path))
             ELSE Ok(Append(d.path, Basename(p))))

\* Where a write to p lands: the file p resolves to, or the file that open(O_CREAT)
\* creates (through a dangling symlink too).
RECURSIVE WriteTarget(_, _, _)
WriteTarget(fs, p, fuel) ==
    With(LPath(fs, p), LAMBDA l :
        IF ~l.ok THEN l
        ELSE IF ~Exists(fs, l.path) THEN l
        ELSE LET n == fs[l.path]
             IN  IF n.kind = "dir" THEN Fail("EISDIR")
                 ELSE IF n.kind = "file" THEN l
                 ELSE IF fuel = 0 THEN Fail("ELOOP")
                 ELSE WriteTarget(fs, (IF n.abs THEN <<>> ELSE Dirname(l.path)) \o n.target,
                                  fuel - 1))

\* fs.promises.mkdir(p, {recursive: true}): the directories it creates (the missing
\* tail of p below its deepest existing ancestor), or an error.
RECURSIVE MkdirP(_, _)
MkdirP(fs, p) ==
    With(Realpath(fs, p), LAMBDA r :
        IF r.ok
        THEN IF NodeAt(fs, r.path).kind = "dir"
             THEN [ok |-> TRUE, fs |-> fs, made |-> {}, code |-> ""]
             ELSE [ok |-> FALSE, fs |-> fs, made |-> {}, code |-> "EEXIST"]
        ELSE IF r.code # "ENOENT" \/ p = <<>>
        THEN [ok |-> FALSE, fs |-> fs, made |-> {}, code |-> r.code]
        ELSE With(MkdirP(fs, Dirname(p)), LAMBDA up :
             IF ~up.ok THEN up
             ELSE With(LPath(up.fs, p), LAMBDA l :
                  IF ~l.ok \/ Exists(up.fs, l.path)
                  THEN [ok |-> FALSE, fs |-> fs, made |-> {}, code |-> "EEXIST"]
                  ELSE [ok |-> TRUE, fs |-> (l.path :> DirNode) @@ up.fs,
                        made |-> up.made \cup {l.path}, code |-> ""])))

(***************************************************************************)
(* Confinement: the predicate of the worker and of SecureFs,               *)
(* realPath === realWorkspace || realPath.startsWith(realWorkspace + sep). *)
(***************************************************************************)
ROOT_REAL == WORKSPACE_DIR

Confined(realPath) == realPath = ROOT_REAL \/ IsPrefix(ROOT_REAL, realPath)


(***************************************************************************)
(* The virtual filesystem of a Pyodide instance (MEMFS): a function from   *)
(* the virtual paths that exist (sequences of names below its "/") to file *)
(* and directory nodes.  The manager and the worker each own one.  A node  *)
(* carries the rank at which it was created: readdir lists the entries of  *)
(* a MEMFS directory in the order they were created.                       *)
(***************************************************************************)
VFile(c, n) == [kind |-> "file", content |-> c, abs |-> TRUE, target |-> <<>>, ord |-> n]

VDir(n) == [kind |-> "dir", content |-> NoContent, abs |-> TRUE, target |-> <<>>, ord |-> n]

\* The rank of the next node created in v.
VNext(v) == IF DOMAIN v = {} THEN 0
            ELSE 1 + (CHOOSE n \in {v[p].ord : p \in DOMAIN v} :
                          \A q \in DOMAIN v : v[q].ord <= n)

VRoot == Names(NormSegs(SplitSegs(VIRTUAL_WORKSPACE), FALSE))

\* The names of a normalized virtual path string.
VNames(virtualPath) == Names(NormSegs(SplitSegs(virtualPath), FALSE))

VOk(v) == [ok |-> TRUE, fs |-> v]

VErr(v) == [ok |-> FALSE, fs |-> v]

\* FS.mkdirTree(p)
RECURSIVE VMkdirTree(_, _)
VMkdirTree(v, p) ==
    IF p = <<>> THEN VOk(v)
    ELSE With(VMkdirTree(v, Dirname(p)), LAMBDA up :
             IF ~up.ok THEN VErr(v)
             ELSE IF p \in DOMAIN up.fs
                  THEN IF up.fs[p].kind = "dir" THEN up ELSE VErr(v)
                  ELSE VOk((p :> VDir(VNext(up.fs))) @@ up.fs))

\* An FS.writeFile that appends to the file when it exists.
VWriteFileAppend(v, p, c) ==
    IF p = <<>> THEN VErr(v)
    ELSE IF ~Exists(v, Dirname(p)) \/ NodeAt(v, Dirname(p)).kind # "dir" THEN VErr(v)
    ELSE IF p \in DOMAIN v /\ v[p].kind = "dir" THEN VErr(v)
    ELSE IF p \in DOMAIN v
    THEN VOk([v EXCEPT ![p].content = [tag |-> c.tag, len |-> v[p].content.len + c.len]])
    ELSE VOk((p :> VFile(c, VNext(v))) @@ v)

\* FS.writeFile(p, content)
VWriteFile(v, p, c) ==
    IF p = <<>> THEN VErr(v)
    ELSE IF ~Exists(v, Dirname(p)) \/ NodeAt(v, Dirname(p)).kind # "dir" THEN VErr(v)
    ELSE IF p \in DOMAIN v /\ v[p].kind = "dir" THEN VErr(v)
    ELSE IF p \in DOMAIN v THEN VOk([v EXCEPT ![p].content = c])
    ELSE VOk((p :> VFile(c, VNext(v))) @@ v)

VIsFile(v, p) == p \in DOMAIN v /\ v[p].kind = "file"

VIsDir(v, p) == p = <<>> \/ (p \in DOMAIN v /\ v[p].kind = "dir")

Remove(f, p) == [q \in DOMAIN f \ {p} |-> f[q]]

\* A set as a sequence, in the order readdir lists it.
RECURSIVE SetToSeq(_)
SetToSeq(S) ==
    IF S = {} THEN <<>>
    ELSE LET x == CHOOSE y \in S : TRUE IN <<x>> \o SetToSeq(S \ {x})

(***************************************************************************)
(* The record of host accesses made on behalf of callers: the operation    *)
(* and the real (symlink-resolved) place it acted on, and whether a        *)
(* confinement check of the target had passed before it, and the          *)
(* component that made the access.                                         *)
(***************************************************************************)
Touch(op, real, checked) == [op |-> op, real |-> real, checked |-> checked, by |-> "manager"]

\* The accesses T, as made by the component `who`.
By(who, T) == {[t EXCEPT !.by = who] : t \in T}

St(v, t, e) == [vfs |-> v, touched |-> t, err |-> e]

(***************************************************************************)
(* PyodideManager.syncHostPathToVirtual (host -> virtual, no validation).  *)
(***************************************************************************)
\* One non-directory host item: readFile(hostPath) then FS.writeFile(virtualPath).
CopyFileIn(hfs, S, hostPath, vpath) ==
    With(Realpath(hfs, hostPath), LAMBDA r :
    With(VWriteFile(S.vfs, vpath, hfs[r.path].content), LAMBDA w :
        St(w.fs, S.touched \cup {Touch("read", r.path, FALSE)}, ~w.ok)))

RECURSIVE MgrSyncItems(_, _, _, _, _)
RECURSIVE MgrSyncHostPathToVirtual(_, _, _, _)
MgrSyncHostPathToVirtual(hfs, S, hostPath, vpath) ==
    With(Realpath(hfs, hostPath), LAMBDA r :
        IF ~r.ok THEN S
        ELSE IF NodeAt(hfs, r.path).kind # "dir"
        THEN CopyFileIn(hfs, St(VMkdirTree(S.vfs, Dirname(vpath)).fs, S.touched, FALSE),
                        hostPath, vpath)
        ELSE MgrSyncItems(hfs, St(S.vfs, S.touched \cup {Touch("list", r.path, FALSE)}, FALSE),
                          hostPath, vpath,
                          SetToSeq({Basename(c) : c \in Children(hfs, r.path)})))

MgrSyncItems(hfs, S, hostPath, vpath, items) ==
    IF items = <<>> \/ S.err THEN S
    ELSE LET hostItemPath == Append(hostPath, items[1])
             virtualItemPath == Append(vpath, items[1])
         IN  MgrSyncItems(hfs,
                 With(Realpath(hfs, hostItemPath), LAMBDA r :
                     IF ~r.ok THEN St(S.vfs, S.touched, TRUE)
                     ELSE IF NodeAt(hfs, r.path).kind = "dir"
                     THEN MgrSyncHostPathToVirtual(hfs,
                              St(VMkdirTree(S.vfs, virtualItemPath).fs, S.touched, FALSE),
                              hostItemPath, virtualItemPath)
                     ELSE CopyFileIn(hfs, S, hostItemPath, virtualItemPath)),
                 hostPath, vpath, Tail(items))

(***************************************************************************)
(* PyodideManager.syncVirtualPathToHost (virtual -> host, no validation).  *)
(* The state threaded here is the host filesystem.                         *)
(***************************************************************************)
HSt(h, t, e) == [hfs |-> h, touched |-> t, err |-> e]

\* fs.promises.mkdir(dir, {recursive: true})
HostMkdir(H, dir, checked) ==
    With(MkdirP(H.hfs, dir), LAMBDA m :
        IF ~m.ok THEN HSt(H.hfs, H.touched, TRUE)
        ELSE HSt(m.fs, H.touched \cup {Touch("mkdir", d, checked) : d \in m.made}, FALSE))

\* fs.promises.writeFile(hostPath, content)
HostWrite(H, hostPath, c, checked) ==
    With(WriteTarget(H.hfs, hostPath, MAXSYMLINKS), LAMBDA t :
        IF ~t.ok THEN HSt(H.hfs, H.touched, TRUE)
        ELSE HSt((t.path :> FileNode(c)) @@ H.hfs,
                 H.touched \cup {Touch("write", t.path, checked)}, FALSE))

VChildren(v, d) == {p \in DOMAIN v : Len(p) = Len(d) + 1 /\ IsPrefix(d, p)}

\* FS.readdir(d) without "." and "..": the names in the order of creation.
RECURSIVE ByOrd(_, _)
ByOrd(v, S) ==
    IF S = {} THEN <<>>
    ELSE LET x == CHOOSE y \in S : \A z \in S : v[y].ord <= v[z].ord
         IN  <<Basename(x)>> \o ByOrd(v, S \ {x})

VReaddir(v, d) == ByOrd(v, VChildren(v, d))

RECURSIVE MgrSyncOutItems(_, _, _, _, _)
RECURSIVE MgrSyncVirtualPathToHost(_, _, _, _)
MgrSyncVirtualPathToHost(v, H, vpath, hostPath) ==
    IF ~Exists(v, vpath) THEN H
    ELSE IF ~VIsDir(v, vpath)
    THEN With(HostMkdir(H, Dirname(hostPath), FALSE), LAMBDA m :
             IF m.err THEN m ELSE HostWrite(m, hostPath, v[vpath].content, FALSE))
    ELSE With(HostMkdir(H, hostPath, FALSE), LAMBDA m :
             IF m.err THEN m
             ELSE MgrSyncOutItems(v, m, vpath, hostPath,
                                  VReaddir(v, vpath)))

MgrSyncOutItems(v, H, vpath, hostPath, items) ==
    IF items = <<>> \/ H.err THEN H
    ELSE LET virtualItemPath == Append(vpath, items[1])
             hostItemPath == Append(hostPath, items[1])
         IN  MgrSyncOutItems(v,
                 IF VIsDir(v, virtualItemPath)
                 THEN MgrSyncVirtualPathToHost(v, H, virtualItemPath, hostItemPath)
                 ELSE HostWrite(H, hostItemPath, v[virtualItemPath].content, FALSE),
                 vpath, hostPath, Tail(items))


(***************************************************************************)
(* pyodide-worker.ts: validateHostPathWithSymlinkResolution and            *)
(* validateParentPathForSymlinks.  TRUE when the call returns, FALSE when  *)
(* it throws.                                                              *)
(***************************************************************************)
RECURSIVE ParentWalk(_, _)
ParentWalk(hfs, currentPath) ==
    IF currentPath = Dirname(currentPath) THEN TRUE
    ELSE With(Realpath(hfs, currentPath), LAMBDA r :
             IF r.ok THEN Confined(r.path)
             ELSE IF r.code = "ENOENT" THEN ParentWalk(hfs, Dirname(currentPath))
             ELSE TRUE)

validateParentPathForSymlinks(hfs, hostPath) == ParentWalk(hfs, Dirname(hostPath))

validateHostPathWithSymlinkResolution(hfs, hostPath) ==
    With(Realpath(hfs, hostPath), LAMBDA r :
        IF r.ok THEN Confined(r.path)
        ELSE IF r.code = "ENOENT" THEN validateParentPathForSymlinks(hfs, hostPath)
        ELSE TRUE)

(***************************************************************************)
(* pyodide-worker.ts: syncHostToVirtual and syncVirtualToHost.             *)
(***************************************************************************)
RECURSIVE WorkerSyncInItems(_, _, _, _, _)
RECURSIVE syncHostToVirtual(_, _, _, _)
syncHostToVirtual(hfs, S, hostPath, vpath) ==
    With(Realpath(hfs, hostPath), LAMBDA r :
        IF ~r.ok THEN S
        ELSE IF NodeAt(hfs, r.path).kind # "dir"
        THEN CopyFileIn(hfs, St(VMkdirTree(S.vfs, Dirname(vpath)).fs, S.touched, FALSE),
                        hostPath, vpath)
        ELSE WorkerSyncInItems(hfs,
                 St(VMkdirTree(S.vfs, vpath).fs,
                    S.touched \cup {Touch("list", r.path, FALSE)}, FALSE),
                 hostPath, vpath, SetToSeq({Basename(c) : c \in Children(hfs, r.path)})))

WorkerSyncInItems(hfs, S, hostPath, vpath, items) ==
    IF items = <<>> \/ S.err THEN S
    ELSE WorkerSyncInItems(hfs,
             syncHostToVirtual(hfs, S, Append(hostPath, Head(items)), Append(vpath, Head(items))),
             hostPath, vpath, Tail(items))

RECURSIVE WorkerSyncOutItems(_, _, _, _, _)
RECURSIVE syncVirtualToHost(_, _, _, _)
syncVirtualToHost(v, H, vpath, hostPath) ==
    IF ~validateHostPathWithSymlinkResolution(H.hfs, hostPath) THEN HSt(H.hfs, H.touched, TRUE)
    ELSE IF ~Exists(v, vpath) THEN H
    ELSE IF ~VIsDir(v, vpath)
    THEN With(HostMkdir(H, Dirname(hostPath), TRUE), LAMBDA m :
             IF m.err THEN m
             ELSE IF ~validateHostPathWithSymlinkResolution(m.hfs, hostPath)
             THEN HSt(m.hfs, m.touched, TRUE)
             ELSE HostWrite(m, hostPath, v[vpath].content, TRUE))
    ELSE With(HostMkdir(H, hostPath, TRUE), LAMBDA m :
             IF m.err THEN m
             ELSE IF ~validateHostPathWithSymlinkResolution(m.hfs, hostPath)
             THEN HSt(m.hfs, m.touched, TRUE)
             ELSE WorkerSyncOutItems(v, m, vpath, hostPath,
                                     VReaddir(v, vpath)))

WorkerSyncOutItems(v, H, vpath, hostPath, items) ==
    IF items = <<>> \/ H.err THEN H
    ELSE WorkerSyncOutItems(v,
             syncVirtualToHost(v, H, Append(vpath, Head(items)), Append(hostPath, Head(items))),
             vpath, hostPath, Tail(items))


(***************************************************************************)
(* Quota (src/config/constants.ts and PyodideManager.getWorkspaceSize /    *)
(* checkWorkspaceSize).  Sizes are in MiB.                                 *)
(***************************************************************************)
MAX_FILE_SIZE == 10

MAX_WORKSPACE_SIZE == 100

\* calculateSize: stat follows symlinks; a stat that fails makes the walk throw.
RECURSIVE CalcItems(_, _, _, _)
RECURSIVE calculateSize(_, _, _)
calculateSize(hfs, dirPath, acc) ==
    With(Realpath(hfs, dirPath), LAMBDA r :
        IF ~r.ok \/ NodeAt(hfs, r.path).kind # "dir" THEN [ok |-> FALSE, size |-> acc]
        ELSE CalcItems(hfs, dirPath, SetToSeq({Basename(c) : c \in Children(hfs, r.path)}),
                       [ok |-> TRUE, size |-> acc]))

CalcItems(hfs, dirPath, items, res) ==
    IF items = <<>> \/ ~res.ok THEN res
    ELSE LET itemPath == Append(dirPath, items[1])
         IN  CalcItems(hfs, dirPath, Tail(items),
                 With(Realpath(hfs, itemPath), LAMBDA r :
                     IF ~r.ok THEN [ok |-> FALSE, size |-> res.size]
                     ELSE IF NodeAt(hfs, r.path).kind = "dir"
                     THEN calculateSize(hfs, itemPath, res.size)
                     ELSE [ok |-> TRUE, size |-> res.size + hfs[r.path].content.len]))

getWorkspaceSize(hfs) ==
    IF ~Realpath(hfs, WORKSPACE_DIR).ok THEN [ok |-> TRUE, size |-> 0]
    ELSE calculateSize(hfs, WORKSPACE_DIR, 0)

ERR_WORKSPACE_FULL == "Workspace size limit exceeded"

ERR_FILE_TOO_LARGE == "File too large"

ERR_IO == "I/O error"

\* checkWorkspaceSize(fileSize): "" when it returns, the error when it throws.
checkWorkspaceSize(hfs, fileSize) ==
    With(getWorkspaceSize(hfs), LAMBDA cur :
        IF ~cur.ok THEN ERR_IO
        ELSE IF cur.size + fileSize > MAX_WORKSPACE_SIZE THEN ERR_WORKSPACE_FULL
        ELSE "")


(***************************************************************************)
(* PyodideManager: initialize / doInitialize and the file tools readFile,  *)
(* listFiles and deleteFile.  Each operator is the whole method: it gives  *)
(* the filesystems after the call, the host accesses made and the result   *)
(* returned to the caller.                                                 *)
(***************************************************************************)
EmptyVfs == (VRoot :> VDir(0))

NoResult == [done |-> FALSE, success |-> FALSE, error |-> "", content |-> NoContent,
             files |-> {}]

Success(c, fl) == [done |-> TRUE, success |-> TRUE, error |-> "", content |-> c, files |-> fl]

Failure(e) == [done |-> TRUE, success |-> FALSE, error |-> e, content |-> NoContent,
               files |-> {}]

Out(h, v, init, t, r) == [hfs |-> h, vfs |-> v, init |-> init, touched |-> t, res |-> r]

\* initialize(): the first call loads the runtime, creates /workspace and syncs the
\* whole host workspace in; a failure leaves the manager uninitialized.
initialize(hfs, v, init) ==
    IF init THEN St(v, {}, FALSE)
    ELSE MgrSyncHostPathToVirtual(hfs, St(EmptyVfs, {}, FALSE), WORKSPACE_DIR, VRoot)

\* The part every file tool starts with: await this.initialize(), then validatePath;
\* Rest(I, fullPath, hostPath) is what the tool does with a valid path.
Tool(hfs, v, init, vp, Rest(_, _, _)) ==
    With(initialize(hfs, v, init), LAMBDA I :
        IF I.err THEN Out(hfs, I.vfs, FALSE, I.touched, Failure(ERR_IO))
        ELSE IF ~vp.ok THEN Out(hfs, I.vfs, TRUE, I.touched, Failure(vp.error))
        ELSE With(VNames(vp.path), LAMBDA fullPath :
             With(virtualToHostPath(vp.path), LAMBDA hostPath :
                  Rest(I, fullPath, hostPath))))

readFile(hfs, v, init, filePath) ==
    Tool(hfs, v, init, validatePath(filePath), LAMBDA I, fullPath, hostPath :
        With(MgrSyncHostPathToVirtual(hfs, St(I.vfs, I.touched, FALSE), hostPath, fullPath),
             LAMBDA S :
                IF S.err \/ ~VIsFile(S.vfs, fullPath)
                THEN Out(hfs, S.vfs, TRUE, S.touched, Failure(ERR_IO))
                ELSE Out(hfs, S.vfs, TRUE, S.touched, Success(S.vfs[fullPath].content, {}))))

listFiles(hfs, v, init, dirPath) ==
    Tool(hfs, v, init,
         IF dirPath # <<>> THEN validatePath(dirPath)
         ELSE [ok |-> TRUE, path |-> VIRTUAL_WORKSPACE, error |-> ""],
         LAMBDA I, fullPath, hostPath :
        With(MgrSyncHostPathToVirtual(hfs, St(I.vfs, I.touched, FALSE), hostPath, fullPath),
             LAMBDA S :
                IF S.err \/ ~VIsDir(S.vfs, fullPath)
                THEN Out(hfs, S.vfs, TRUE, S.touched, Failure(ERR_IO))
                ELSE Out(hfs, S.vfs, TRUE, S.touched,
                         Success(NoContent,
                                 {[name |-> Basename(c),
                                   isDirectory |-> S.vfs[c].kind = "dir",
                                   size |-> S.vfs[c].content.len] :
                                     c \in VChildren(S.vfs, fullPath)}))))

\* The host half of deleteFile: access, stat, then rmdir or unlink; every error is
\* swallowed.  unlink and rmdir act on the entry itself, never through a symlink.
HostDelete(hfs, hostPath) ==
    With(Realpath(hfs, hostPath), LAMBDA r :
    With(LPath(hfs, hostPath), LAMBDA l :
        IF ~r.ok \/ ~l.ok \/ l.path = <<>> THEN [hfs |-> hfs, touched |-> {}]
        ELSE IF NodeAt(hfs, r.path).kind = "dir"
        THEN IF hfs[l.path].kind = "dir" /\ Children(hfs, l.path) = {}
             THEN [hfs |-> Remove(hfs, l.path), touched |-> {Touch("delete", l.path, FALSE)}]
             ELSE [hfs |-> hfs, touched |-> {}]
        ELSE [hfs |-> Remove(hfs, l.path), touched |-> {Touch("delete", l.path, FALSE)}]))

deleteFile(hfs, v, init, filePath) ==
    Tool(hfs, v, init, validatePath(filePath), LAMBDA I, fullPath, hostPath :
        With(MgrSyncHostPathToVirtual(hfs, St(I.vfs, I.touched, FALSE), hostPath, fullPath),
             LAMBDA S :
                IF S.err \/ ~IsPrefix(WORKSPACE_DIR, hostPath) \/ fullPath \notin DOMAIN S.vfs
                THEN Out(hfs, S.vfs, TRUE, S.touched, Failure(ERR_IO))
                ELSE IF S.vfs[fullPath].kind = "dir" /\ VChildren(S.vfs, fullPath) # {}
                THEN Out(hfs, S.vfs, TRUE, S.touched, Failure(ERR_IO))
                ELSE With(HostDelete(hfs, hostPath), LAMBDA D :
                          Out(D.hfs, Remove(S.vfs, fullPath), TRUE, S.touched \cup D.touched,
                              Success(NoContent, {})))))


(***************************************************************************)
(* State.                                                                  *)
(*   hfs      the host filesystem                                          *)
(*   mvfs     the virtual filesystem of the manager's Pyodide instance     *)
(*   mgrInit  PyodideManager.initialized                                   *)
(*   wvfs     the virtual filesystem of the worker's Pyodide instance      *)
(*   touched  the host accesses made by the last step                      *)
(*   calls    the tool calls in progress: where each is suspended (pc),    *)
(*            its arguments, and the result it returned                    *)
(***************************************************************************)
VARIABLES hfs, mvfs, mgrInit, wvfs, touched, calls

fsVars == <<hfs, mvfs, mgrInit, wvfs, touched, calls>>

(***************************************************************************)
(* State of the Python supervisor (PyodideManager's worker fields).        *)
(*   worker             this.worker: the id of a thread, 0 for null        *)
(*   workerReady        this.workerReady                                   *)
(*   workerInitPromise  this.workerInitPromise: the id of the thread whose *)
(*                      doInitializeWorker made the promise, 0 for null    *)
(*   threads            the worker threads ever created                    *)
(*   execs              the execute_python calls of the clients            *)
(***************************************************************************)
VARIABLES worker, workerReady, workerInitPromise, threads, execs

execVars == <<worker, workerReady, workerInitPromise, threads, execs>>

(***************************************************************************)
(* State of an AsyncLock (src/utils/async-lock.ts) and of the JavaScript   *)
(* job queue its promises run on.                                          *)
(*   locks    this.locks: the keys held, each with the acquirer whose      *)
(*            lockPromise is stored under it                               *)
(*   waiters  for each acquirer's lockPromise, the acquirers suspended at  *)
(*            `await this.locks.get(key)` on it, in the order they awaited *)
(*   jobs     the microtask queue: continuations not yet run, oldest first *)
(*   acq      the acquire calls: where each is, its key, whether its fn    *)
(*            throws, its rank among the calls (ticket) and among the      *)
(*            starts of fn on any key (turn), and how it settled           *)
(*   clock    the number of acquire calls made and of fn started           *)
(***************************************************************************)
VARIABLES locks, waiters, jobs, acq, clock

lockVars == <<locks, waiters, jobs, acq, clock>>

(***************************************************************************)
(* The output capture of the worker's Pyodide instance.                    *)
(*   sink   the request whose buffer py.setStdout last installed, 0 when   *)
(*          output goes to process.stdout                                  *)
(*   runs   the worker's executeCode of each request: where it is          *)
(*          suspended, its stdoutBuffer, and the stdout it returned        *)
(***************************************************************************)
VARIABLES sink, runs

outVars == <<sink, runs>>

vars == <<fsVars, execVars, lockVars, outVars>>

NumAcquirers == 3

Acquirers == 1..NumAcquirers

NoLocks == [k \in {} |-> 0]

IdleAcq == [pc |-> "idle", key |-> "", throws |-> FALSE, ticket |-> 0, turn |-> 0,
            outcome |-> ""]

\* new AsyncLock(), nothing called yet.
LockIdle ==
    /\ locks = NoLocks
    /\ waiters = [p \in Acquirers |-> <<>>]
    /\ jobs = <<>>
    /\ acq = [p \in Acquirers |-> IdleAcq]
    /\ clock = [calls |-> 0, starts |-> 0]

NumCallers == 3

Callers == 1..NumCallers

IdleRun == [pc |-> "idle", buf |-> <<>>, stdout |-> <<>>, done |-> FALSE]

OutIdle ==
    /\ sink = 0
    /\ runs = [r \in Callers |-> IdleRun]

IdleCall == [pc |-> "idle", op |-> "", filePath |-> <<>>, content |-> NoContent,
             captured |-> NoContent, res |-> NoResult, n |-> 0]

\* Each client makes at most MaxCalls tool calls, one after the other.
MaxCalls == 2

CanCall(c) == calls[c].pc = "idle" /\ calls[c].n < MaxCalls

Finish(c, op, filePath, content, r) ==
    calls' = [calls EXCEPT ![c] = [IdleCall EXCEPT !.op = op, !.filePath = filePath,
                                                   !.content = content, !.res = r,
                                                   !.n = calls[c].n + 1]]

(***************************************************************************)
(* PyodideManager.writeFile, one action per stretch between two awaits.    *)
(***************************************************************************)
\* A writeFile that has no per-file size check.
FileNeverTooLarge(fileSize) == FALSE

\* The per-file check of writeFile: fileSize > MAX_FILE_SIZE throws 'File too large'.
FileTooLarge(fileSize) == fileSize > MAX_FILE_SIZE

\* The call is made and suspends at `await this.initialize()`.
WriteFileCall(c, filePath, content) ==
    /\ CanCall(c)
    /\ calls' = [calls EXCEPT ![c] = [IdleCall EXCEPT !.pc = "await_init", !.op = "write",
                                      !.filePath = filePath, !.content = content,
                                      !.n = calls[c].n]]
    /\ touched' = {}
    /\ UNCHANGED <<hfs, mvfs, mgrInit, wvfs>>
    /\ UNCHANGED <<execVars, lockVars, outVars>>

\* A writeFile that creates the parent directory in the virtual filesystem as soon as
\* the path is valid, before the size checks.
WriteFileCheckMkdirFirst(c) ==
    /\ calls[c].pc = "await_init"
    /\ \E I \in {initialize(hfs, mvfs, mgrInit)}, vp \in {validatePath(calls[c].filePath)} :
           /\ mvfs' = IF I.err \/ ~vp.ok THEN I.vfs
                       ELSE VMkdirTree(I.vfs, Dirname(VNames(vp.path))).fs
           /\ mgrInit' = ~I.err
           /\ touched' = I.touched
           /\ IF I.err THEN Finish(c, "write", calls[c].filePath, calls[c].content, Failure(ERR_IO))
              ELSE IF ~vp.ok THEN Finish(c, "write", calls[c].filePath, calls[c].content, Failure(vp.error))
              ELSE IF FileTooLarge(calls[c].content.len)
              THEN Finish(c, "write", calls[c].filePath, calls[c].content, Failure(ERR_FILE_TOO_LARGE))
              ELSE calls' = [calls EXCEPT ![c].pc = "await_size"]
    /\ UNCHANGED <<hfs, wvfs>>
    /\ UNCHANGED <<execVars, lockVars, outVars>>

\* initialize() settles; validatePath and the MAX_FILE_SIZE check run, and the call
\* suspends in checkWorkspaceSize while the host tree is walked.
WriteFileCheck(c) ==
    /\ calls[c].pc = "await_init"
    /\ \E I \in {initialize(hfs, mvfs, mgrInit)}, vp \in {validatePath(calls[c].filePath)} :
           /\ mvfs' = I.vfs
           /\ mgrInit' = ~I.err
           /\ touched' = I.touched
           /\ IF I.err THEN Finish(c, "write", calls[c].filePath, calls[c].content, Failure(ERR_IO))
              ELSE IF ~vp.ok THEN Finish(c, "write", calls[c].filePath, calls[c].content, Failure(vp.error))
              ELSE IF FileTooLarge(calls[c].content.len)
              THEN Finish(c, "write", calls[c].filePath, calls[c].content, Failure(ERR_FILE_TOO_LARGE))
              ELSE calls' = [calls EXCEPT ![c].pc = "await_size"]
    /\ UNCHANGED <<hfs, wvfs>>
    /\ UNCHANGED <<execVars, lockVars, outVars>>

\* The walk settles with the size measured; the limit is checked, the file is written
\* into the virtual filesystem and syncVirtualPathToHost suspends at its mkdir.
WriteFileMeasure(c) ==
    /\ calls[c].pc = "await_size"
    /\ \E e \in {checkWorkspaceSize(hfs, calls[c].content.len)},
          fullPath \in {VNames(validatePath(calls[c].filePath).path)} :
       \E mk \in {VMkdirTree(mvfs, Dirname(fullPath))} :
       \E w \in {VWriteFile(mk.fs, fullPath, calls[c].content)} :
           IF e # "" THEN /\ Finish(c, "write", calls[c].filePath, calls[c].content, Failure(e))
                          /\ mvfs' = mvfs
           ELSE IF ~mk.ok \/ ~w.ok
           THEN /\ Finish(c, "write", calls[c].filePath, calls[c].content, Failure(ERR_IO))
                /\ mvfs' = mk.fs
           ELSE /\ calls' = [calls EXCEPT ![c].pc = "await_mkdir"]
                /\ mvfs' = w.fs
    /\ touched' = {}
    /\ UNCHANGED <<hfs, mgrInit, wvfs>>
    /\ UNCHANGED <<execVars, lockVars, outVars>>

\* mkdir(parentDir, {recursive: true}) settles; the content is read back from the
\* virtual filesystem and the call suspends at fs.promises.writeFile.
WriteFileMkdir(c) ==
    /\ calls[c].pc = "await_mkdir"
    /\ \E vp \in {validatePath(calls[c].filePath)} :
       \E fullPath \in {VNames(vp.path)},
          m \in {HostMkdir(HSt(hfs, {}, FALSE), Dirname(virtualToHostPath(vp.path)), FALSE)} :
           /\ hfs' = m.hfs
           /\ touched' = m.touched
           /\ IF m.err \/ ~VIsFile(mvfs, fullPath)
              THEN Finish(c, "write", calls[c].filePath, calls[c].content, Failure(ERR_IO))
              ELSE calls' = [calls EXCEPT ![c].pc = "await_write",
                                          ![c].captured = mvfs[fullPath].content]
    /\ UNCHANGED <<mvfs, mgrInit, wvfs>>
    /\ UNCHANGED <<execVars, lockVars, outVars>>

\* fs.promises.writeFile(hostPath, content) settles and the call returns.
WriteFileHostWrite(c) ==
    /\ calls[c].pc = "await_write"
    /\ \E w \in {HostWrite(HSt(hfs, {}, FALSE),
                             virtualToHostPath(validatePath(calls[c].filePath).path),
                             calls[c].captured, FALSE)} :
           /\ hfs' = w.hfs
           /\ touched' = w.touched
           /\ Finish(c, "write", calls[c].filePath, calls[c].content,
                     IF w.err THEN Failure(ERR_IO) ELSE Success(NoContent, {}))
    /\ UNCHANGED <<mvfs, mgrInit, wvfs>>
    /\ UNCHANGED <<execVars, lockVars, outVars>>

(***************************************************************************)
(* The Python supervisor: PyodideManager.initializeWorker,                 *)
(* doInitializeWorker, terminateWorker and executeCode, and the worker     *)
(* thread's main().  Time is in milliseconds; a timer holds the time left  *)
(* until it is due.                                                        *)
(***************************************************************************)
PYTHON_EXECUTION_TIMEOUT_MS == 5000

INIT_TIMEOUT_MS == 60000

\* Worker threads created in one behaviour.
MaxWorkers == 2

\* Clients calling execute_python.
NumClients == 2

Clients == 1..NumClients

\* The latest a due timer's callback runs: the supervisor's event loop is never
\* blocked for longer, since the Python code runs on the worker thread.
GraceMs == 1000

\* The step by which time passes when no timer falls due sooner.
TickMs == 2500

ElapsedCap == PYTHON_EXECUTION_TIMEOUT_MS + GraceMs + TickMs

Min(a, b) == IF a < b THEN a ELSE b

ERR_NO_WORKER == "Worker thread not available"

ERR_INIT_TIMEOUT == "Worker initialization timed out"

ERR_INIT_FAILED == "Worker initialization failed"

\* `Execution timed out after ${PYTHON_EXECUTION_TIMEOUT_MS}ms`
TimeoutError == "Execution timed out after " \o ToString(PYTHON_EXECUTION_TIMEOUT_MS) \o "ms"

\* A worker thread: its state, the execute messages posted to it and not yet handled,
\* the requests its executeCode is processing, the messages it posted and the
\* supervisor has not handled, and what doInitializeWorker made for it: the promise,
\* the calls awaiting the promise (in the order they began to wait) and initTimeout.
NoThread ==
    [st |-> "unborn", inbox |-> <<>>, active |-> {}, outbox |-> <<>>, promise |-> "none",
     waiters |-> <<>>, initArmed |-> FALSE, initLeft |-> 0]

NoExecResult ==
    [done |-> FALSE, success |-> FALSE, error |-> "", from |-> "", of |-> 0, elapsed |-> 0,
     thrown |-> FALSE]

\* An execute_python call: where it is suspended, its code, the worker it attached its
\* message handler to, its timeout timer, the time since it was dispatched, the
\* result it returned, whether the client's previous call timed out, and the number
\* of calls the client has made.
IdleExec ==
    [pc |-> "idle", code |-> "", w |-> 0, armed |-> FALSE, left |-> 0, elapsed |-> 0,
     res |-> NoExecResult, after |-> FALSE, n |-> 0]

ReadyMsg == [type |-> "ready", of |-> 0, success |-> FALSE, error |-> ""]

ResultMsg(c, ok) ==
    [type |-> "result", of |-> c, success |-> ok, error |-> IF ok THEN "" ELSE "PythonError"]

ErrorMsg(e) == [type |-> "error", of |-> 0, success |-> FALSE, error |-> e]

\* The call e returns result r.
Returned(e, r) ==
    [e EXCEPT !.pc = "idle", !.armed = FALSE, !.left = 0, !.n = @ + 1,
              !.res = [r EXCEPT !.done = TRUE, !.elapsed = e.elapsed]]

SupervisorError(msg) ==
    [done |-> TRUE, success |-> FALSE, error |-> msg, from |-> "supervisor", of |-> 0,
     elapsed |-> 0, thrown |-> FALSE]

\* executeCode ends by throwing: the rejection of initializeWorker is not caught.
Rejection(msg) == [SupervisorError(msg) EXCEPT !.thrown = TRUE]

TimeoutResult ==
    [done |-> TRUE, success |-> FALSE, error |-> TimeoutError, from |-> "timeout", of |-> 0,
     elapsed |-> 0, thrown |-> FALSE]

WorkerResult(m) ==
    [done |-> TRUE, success |-> m.success, error |-> m.error, from |-> "worker", of |-> m.of,
     elapsed |-> 0, thrown |-> FALSE]

\* terminateWorker(): the threads afterwards (the three fields become null / false).
terminateWorker(T, w) == IF w = 0 THEN T ELSE [T EXCEPT ![w].st = "terminated"]

\* executeCode from worker.on("message", handleMessage) to worker.postMessage: the
\* call is pending on worker w with its timeout timer armed.
DispatchedUntimed(e, w) ==
    [e EXCEPT !.pc = "pending", !.w = w, !.armed = FALSE, !.left = 0, !.elapsed = 0]

Dispatched(e, w) ==
    [e EXCEPT !.pc = "pending", !.w = w, !.armed = PYTHON_EXECUTION_TIMEOUT_MS > 0,
              !.left = PYTHON_EXECUTION_TIMEOUT_MS, !.elapsed = 0]

\* The tail of executeCode once initializeWorker has settled, for the calls ws in
\* turn: a rejection is thrown on; without a worker the call returns ERR_NO_WORKER;
\* otherwise the handler is attached to this.worker, the timer is armed and the
\* execute message is posted.
RECURSIVE Proceed(_, _, _, _, _, _)
Proceed(E, T, ws, w, ok, err) ==
    IF ws = <<>> THEN [execs |-> E, threads |-> T]
    ELSE IF ~ok
    THEN Proceed([E EXCEPT ![ws[1]] = Returned(@, Rejection(err))], T, Tail(ws),
                 w, ok, err)
    ELSE IF w = 0
    THEN Proceed([E EXCEPT ![ws[1]] = Returned(@, SupervisorError(ERR_NO_WORKER))], T,
                 Tail(ws), w, ok, err)
    ELSE Proceed([E EXCEPT ![ws[1]] = Dispatched(@, w)],
                 [T EXCEPT ![w].inbox =
                     IF T[w].st \in {"loading", "ready"}
                     THEN Append(@, [of |-> ws[1], code |-> E[ws[1]].code]) ELSE @],
                 Tail(ws), w, ok, err)

\* execute_python calls made in one behaviour.
MaxExecs == 3

RECURSIVE ExecsMade(_)
ExecsMade(c) ==
    IF c = 0 THEN 0
    ELSE execs[c].n + (IF execs[c].pc = "idle" THEN 0 ELSE 1) + ExecsMade(c - 1)

Unborn == {w \in 1..MaxWorkers : threads[w].st = "unborn"}

\* executeCode is called and runs to its first suspension.
ExecCall(c, code) ==
    /\ execs[c].pc = "idle"
    /\ ExecsMade(NumClients) < MaxExecs
    /\ \E e \in {[execs[c] EXCEPT !.code = code, !.res = NoExecResult, !.elapsed = 0,
                                  !.after = execs[c].res.from = "timeout"]} :
       IF workerReady /\ worker # 0
       THEN \E P \in {Proceed([execs EXCEPT ![c] = e], threads, <<c>>, worker, TRUE, "")} :
               /\ execs' = P.execs
               /\ threads' = P.threads
               /\ UNCHANGED <<worker, workerReady, workerInitPromise>>
       ELSE IF workerInitPromise # 0
       THEN IF threads[workerInitPromise].promise = "pending"
            THEN /\ execs' = [execs EXCEPT ![c] = [e EXCEPT !.pc = "await_init"]]
                 /\ threads' = [threads EXCEPT ![workerInitPromise].waiters = Append(@, c)]
                 /\ UNCHANGED <<worker, workerReady, workerInitPromise>>
            ELSE \E P \in {Proceed([execs EXCEPT ![c] = e], threads, <<c>>, worker,
                                   threads[workerInitPromise].promise = "resolved",
                                   ERR_INIT_FAILED)} :
                    /\ execs' = P.execs
                    /\ threads' = P.threads
                    /\ UNCHANGED <<worker, workerReady, workerInitPromise>>
       ELSE /\ Unborn # {}
            /\ \E w \in {CHOOSE x \in Unborn : \A y \in Unborn : x <= y} :
                  /\ worker' = w
                  /\ workerInitPromise' = w
                  /\ threads' = [threads EXCEPT ![w] =
                        [NoThread EXCEPT !.st = "loading", !.promise = "pending",
                                         !.waiters = <<c>>, !.initArmed = TRUE,
                                         !.initLeft = INIT_TIMEOUT_MS]]
                  /\ execs' = [execs EXCEPT ![c] = [e EXCEPT !.pc = "await_init"]]
                  /\ UNCHANGED workerReady
    /\ UNCHANGED <<fsVars, lockVars, outVars>>

\* pyodide-worker.ts main(): initializePyodide() succeeds, "ready" is posted and the
\* message listener is registered.
ThreadReady(w) ==
    /\ threads[w].st = "loading"
    /\ threads' = [threads EXCEPT ![w].st = "ready", ![w].outbox = Append(@, ReadyMsg)]
    /\ UNCHANGED <<worker, workerReady, workerInitPromise, execs, fsVars, lockVars, outVars>>

\* main(): initializePyodide() throws; the error is posted and no listener is registered.
ThreadInitFail(w) ==
    /\ threads[w].st = "loading"
    /\ threads' = [threads EXCEPT ![w].st = "failed",
                                  ![w].outbox = Append(@, ErrorMsg(ERR_INIT_FAILED))]
    /\ UNCHANGED <<worker, workerReady, workerInitPromise, execs, fsVars, lockVars, outVars>>

\* The worker's message listener takes the next execute message and starts an
\* executeCode for it, whatever else is in progress at an await.  A thread that is
\* running Python code which never returns handles nothing any more.
Spinning(w) == \E r \in threads[w].active : r.code = "loop"

ThreadStart(w) ==
    /\ threads[w].st = "ready"
    /\ threads[w].inbox # <<>>
    /\ ~Spinning(w)
    /\ threads' = [threads EXCEPT ![w].inbox = Tail(@),
                                  ![w].active = @ \cup {Head(threads[w].inbox)}]
    /\ UNCHANGED <<worker, workerReady, workerInitPromise, execs, fsVars, lockVars, outVars>>

\* An executeCode of the worker runs to its end and posts its result.
ThreadFinish(w) ==
    /\ threads[w].st = "ready"
    /\ ~Spinning(w)
    /\ \E r \in threads[w].active :
          threads' = [threads EXCEPT ![w].active = @ \ {r},
                                     ![w].outbox = Append(@, ResultMsg(r.of, r.code = "ok"))]
    /\ UNCHANGED <<worker, workerReady, workerInitPromise, execs, fsVars, lockVars, outVars>>

\* The same for a handleMessage without its `resolved` flag, never taken off.
AttachedEver(w) == {c \in Clients : execs[c].w = w}

\* The calls whose handleMessage is attached to thread w and has not resolved.
Attached(w) == {c \in Clients : execs[c].pc = "pending" /\ execs[c].w = w}

\* A "message" event of thread w: the listener of doInitializeWorker runs, then every
\* handleMessage attached to w, then the calls awaiting the promise it settled.
OnMessage(w) ==
    /\ threads[w].st \notin {"unborn", "exited"}
    /\ threads[w].outbox # <<>>
    /\ \E m \in {Head(threads[w].outbox)} :
       \E settles \in {m.type \in {"ready", "error"} /\ threads[w].promise = "pending"} :
       \E E1 \in {[c \in Clients |->
                     IF c \in Attached(w) /\ m.type \in {"result", "error"}
                     THEN Returned(execs[c], WorkerResult(m)) ELSE execs[c]]} :
       \E T1 \in {[threads EXCEPT
                     ![w].outbox = Tail(@),
                     ![w].initArmed = IF m.type \in {"ready", "error"} THEN FALSE ELSE @,
                     ![w].promise = IF ~settles THEN @
                                    ELSE IF m.type = "ready" THEN "resolved" ELSE "rejected",
                     ![w].waiters = IF settles THEN <<>> ELSE @]} :
       \E P \in {IF settles
                 THEN Proceed(E1, T1, threads[w].waiters, worker, m.type = "ready", m.error)
                 ELSE [execs |-> E1, threads |-> T1]} :
          /\ execs' = P.execs
          /\ threads' = P.threads
          /\ workerReady' = IF m.type = "ready" THEN TRUE ELSE workerReady
          /\ workerInitPromise' = IF settles /\ m.type = "error" THEN 0 ELSE workerInitPromise
          /\ UNCHANGED worker
    /\ UNCHANGED <<fsVars, lockVars, outVars>>

\* The timeout timer of call c runs: terminateWorker(), and the call returns Timeout.
ExecTimeout(c) ==
    /\ execs[c].pc = "pending"
    /\ execs[c].armed
    /\ execs[c].left <= 0
    /\ threads' = terminateWorker(threads, worker)
    /\ IF worker # 0
       THEN worker' = 0 /\ workerReady' = FALSE /\ workerInitPromise' = 0
       ELSE UNCHANGED <<worker, workerReady, workerInitPromise>>
    /\ execs' = [execs EXCEPT ![c] = Returned(@, TimeoutResult)]
    /\ UNCHANGED <<fsVars, lockVars, outVars>>

\* initTimeout of thread w runs: terminateWorker(), and the promise is rejected.
InitTimeout(w) ==
    /\ threads[w].initArmed
    /\ threads[w].initLeft <= 0
    /\ \E T1 \in {[terminateWorker(threads, worker) EXCEPT
                     ![w].initArmed = FALSE, ![w].waiters = <<>>,
                     ![w].promise = IF @ = "pending" THEN "rejected" ELSE @]} :
       \E P \in {IF threads[w].promise = "pending"
                 THEN Proceed(execs, T1, threads[w].waiters, 0, FALSE, ERR_INIT_TIMEOUT)
                 ELSE [execs |-> execs, threads |-> T1]} :
          /\ execs' = P.execs
          /\ threads' = P.threads
    /\ IF worker # 0 \/ threads[w].promise = "pending"
       THEN workerInitPromise' = 0
       ELSE UNCHANGED workerInitPromise
    /\ IF worker # 0
       THEN worker' = 0 /\ workerReady' = FALSE
       ELSE UNCHANGED <<worker, workerReady>>
    /\ UNCHANGED <<fsVars, lockVars, outVars>>

\* The "exit" event of a terminated thread.
WorkerExit(w) ==
    /\ threads[w].st = "terminated"
    /\ threads' = [threads EXCEPT ![w].st = "exited", ![w].inbox = <<>>, ![w].active = {},
                                  ![w].outbox = <<>>]
    /\ workerReady' = FALSE
    /\ worker' = 0
    /\ workerInitPromise' = 0
    /\ UNCHANGED <<execs, fsVars, lockVars, outVars>>

\* Time passes by d: up to the next time a timer falls due (by TickMs when none is
\* armed), or by GraceMs past a due timer, and never further than that.
TimersLeft ==
    {execs[c].left : c \in {x \in Clients : execs[x].armed}}
    \cup {threads[w].initLeft : w \in {x \in 1..MaxWorkers : threads[x].initArmed}}

Tick(d) ==
    /\ TimersLeft # {} \/ \E c \in Clients : execs[c].pc = "pending"
    /\ \A l \in TimersLeft : l - d >= -GraceMs
    /\ execs' = [c \in Clients |->
                    IF execs[c].pc = "pending"
                    THEN [execs[c] EXCEPT !.left = IF execs[c].armed THEN @ - d ELSE @,
                                          !.elapsed = Min(@ + d, ElapsedCap)]
                    ELSE execs[c]]
    /\ threads' = [w \in 1..MaxWorkers |->
                    IF threads[w].initArmed
                    THEN [threads[w] EXCEPT !.initLeft = @ - d] ELSE threads[w]]
    /\ UNCHANGED <<worker, workerReady, workerInitPromise, fsVars, lockVars, outVars>>

TickSteps ==
    IF \E l \in TimersLeft : l <= 0 THEN {GraceMs}
    ELSE IF TimersLeft # {} THEN {CHOOSE l \in TimersLeft : \A k \in TimersLeft : l <= k}
    ELSE {TickMs}

(***************************************************************************)
(* SpecExec: clients calling execute_python, possibly at the same time,    *)
(* with code that returns, code that raises and code that never returns.   *)
(* SpecRecover: the same with one client, whose calls follow one another.  *)
(***************************************************************************)
Codes == {"ok", "loop"}

ExecIdle ==
    /\ worker = 0
    /\ workerReady = FALSE
    /\ workerInitPromise = 0
    /\ threads = [w \in 1..MaxWorkers |-> NoThread]
    /\ execs = [c \in Clients |-> IdleExec]

FsIdle ==
    /\ hfs = (WORKSPACE_DIR :> DirNode)
    /\ mvfs = EmptyVfs
    /\ mgrInit = FALSE
    /\ wvfs = EmptyVfs
    /\ touched = {}
    /\ calls = [c \in Callers |-> IdleCall]

InitExec == ExecIdle /\ FsIdle /\ LockIdle /\ OutIdle

NextExec ==
    \/ \E c \in Clients, code \in Codes : ExecCall(c, code)
    \/ \E w \in 1..MaxWorkers : ThreadReady(w)
    \/ \E w \in 1..MaxWorkers : ThreadInitFail(w)
    \/ \E w \in 1..MaxWorkers : ThreadStart(w)
    \/ \E w \in 1..MaxWorkers : ThreadFinish(w)
    \/ \E w \in 1..MaxWorkers : OnMessage(w)
    \/ \E c \in Clients : ExecTimeout(c)
    \/ \E w \in 1..MaxWorkers : InitTimeout(w)
    \/ \E w \in 1..MaxWorkers : WorkerExit(w)
    \/ \E d \in TickSteps : Tick(d)

SpecExec == InitExec /\ [][NextExec]_vars

NextRecover ==
    \/ \E code \in Codes : ExecCall(1, code)
    \/ \E w \in 1..MaxWorkers : ThreadReady(w)
    \/ \E w \in 1..MaxWorkers : ThreadInitFail(w)
    \/ \E w \in 1..MaxWorkers : ThreadStart(w)
    \/ \E w \in 1..MaxWorkers : ThreadFinish(w)
    \/ \E w \in 1..MaxWorkers : OnMessage(w)
    \/ ExecTimeout(1)
    \/ \E w \in 1..MaxWorkers : InitTimeout(w)
    \/ \E w \in 1..MaxWorkers : WorkerExit(w)
    \/ \E d \in TickSteps : Tick(d)

SpecRecover == InitExec /\ [][NextRecover]_vars

(***************************************************************************)
(* SpecQuota: concurrent write_file calls, each to its own new file, on a  *)
(* workspace already filled with files of MAX_FILE_SIZE.                   *)
(***************************************************************************)
\* Filler files present at the start, of MAX_FILE_SIZE each.
FillFiles == 9

FillName(i) == "fill" \o ToString(i)

FilledWorkspace ==
    [p \in {WORKSPACE_DIR} \cup {Append(WORKSPACE_DIR, FillName(i)) : i \in 1..FillFiles} |->
        IF p = WORKSPACE_DIR THEN DirNode
        ELSE FileNode([tag |-> "fill", len |-> MAX_FILE_SIZE])]

RacePath(c) == <<"race" \o ToString(c)>>

QuotaContents == {[tag |-> "y", len |-> n] : n \in {5, MAX_FILE_SIZE, MAX_FILE_SIZE + 1}}

InitQuota ==
    /\ hfs = FilledWorkspace
    /\ mvfs = EmptyVfs
    /\ mgrInit = FALSE
    /\ wvfs = EmptyVfs
    /\ touched = {}
    /\ calls = [c \in Callers |-> IdleCall]
    /\ ExecIdle
    /\ LockIdle
    /\ OutIdle

NextQuota ==
    \E c \in Callers :
        \/ /\ ~calls[c].res.done
           /\ \E content \in QuotaContents : WriteFileCall(c, RacePath(c), content)
        \/ WriteFileCheck(c)
        \/ WriteFileMeasure(c)
        \/ WriteFileMkdir(c)
        \/ WriteFileHostWrite(c)

SpecQuota == InitQuota /\ [][NextQuota]_vars

(***************************************************************************)
(* The atomic file tools, the Python execution of the worker and the host  *)
(* side of the workspace (another process of the host may place a symlink  *)
(* in the workspace at any time, as the tests do with fs.symlink).         *)
(***************************************************************************)
ReadFile(c, filePath) ==
    /\ CanCall(c)
    /\ \E O \in {readFile(hfs, mvfs, mgrInit, filePath)} :
           /\ hfs' = O.hfs /\ mvfs' = O.vfs /\ mgrInit' = O.init /\ touched' = O.touched
           /\ Finish(c, "read", filePath, NoContent, O.res)
    /\ UNCHANGED wvfs
    /\ UNCHANGED <<execVars, lockVars, outVars>>

ListFiles(c, dirPath) ==
    /\ CanCall(c)
    /\ \E O \in {listFiles(hfs, mvfs, mgrInit, dirPath)} :
           /\ hfs' = O.hfs /\ mvfs' = O.vfs /\ mgrInit' = O.init /\ touched' = O.touched
           /\ Finish(c, "list", dirPath, NoContent, O.res)
    /\ UNCHANGED wvfs
    /\ UNCHANGED <<execVars, lockVars, outVars>>

DeleteFile(c, filePath) ==
    /\ CanCall(c)
    /\ \E O \in {deleteFile(hfs, mvfs, mgrInit, filePath)} :
           /\ hfs' = O.hfs /\ mvfs' = O.vfs /\ mgrInit' = O.init /\ touched' = O.touched
           /\ Finish(c, "delete", filePath, NoContent, O.res)
    /\ UNCHANGED wvfs
    /\ UNCHANGED <<execVars, lockVars, outVars>>

\* What the user's Python code does to the worker's virtual filesystem: nothing, or
\* open(p, "w").write(content) for a path p under /workspace.
PyRun(v, effect) ==
    IF effect.write
    THEN VWriteFile(VMkdirTree(v, Dirname(effect.path)).fs, effect.path, effect.content).fs
    ELSE v

\* pyodide-worker.ts executeCode: sync in, run the code, sync out (again in the
\* catch block when the first sync out throws).
ExecutePython(c, effect) ==
    /\ CanCall(c)
    /\ \E S \in {syncHostToVirtual(hfs, St(wvfs, {}, FALSE), WORKSPACE_DIR, VRoot)} :
       \E ran \in {PyRun(S.vfs, effect)} :
       \E H1 \in {syncVirtualToHost(ran, HSt(hfs, S.touched, FALSE), VRoot, WORKSPACE_DIR)} :
       \E H \in {IF H1.err
                 THEN syncVirtualToHost(ran, HSt(H1.hfs, H1.touched, FALSE), VRoot,
                                        WORKSPACE_DIR)
                 ELSE H1} :
           IF S.err
           THEN /\ wvfs' = S.vfs /\ hfs' = hfs /\ touched' = By("worker", S.touched)
                /\ Finish(c, "python", effect.path, effect.content, Failure(ERR_IO))
           ELSE /\ wvfs' = ran /\ hfs' = H.hfs /\ touched' = By("worker", H.touched)
                /\ Finish(c, "python", effect.path, effect.content,
                          IF H.err THEN Failure(ERR_IO) ELSE Success(NoContent, {}))
    /\ UNCHANGED <<mvfs, mgrInit>>
    /\ UNCHANGED <<execVars, lockVars, outVars>>

\* A host process creates the symlink WORKSPACE_DIR/name -> target.
HostSymlink(name, target) ==
    /\ Append(WORKSPACE_DIR, name) \notin DOMAIN hfs
    /\ hfs' = (Append(WORKSPACE_DIR, name) :> LinkNode(TRUE, target)) @@ hfs
    /\ touched' = {}
    /\ UNCHANGED <<mvfs, mgrInit, wvfs, calls>>
    /\ UNCHANGED <<execVars, lockVars, outVars>>

(***************************************************************************)
(* SpecFs: one client calling the file tools and execute_python on a       *)
(* workspace in which symlinks to places outside it appear.                *)
(***************************************************************************)
Secret == [tag |-> "secret", len |-> 1]

Data == [tag |-> "data", len |-> 1]

BaseHost ==
    (WORKSPACE_DIR :> DirNode) @@ (<<"ws", "a">> :> FileNode(Data))
    @@ (<<"etc">> :> DirNode) @@ (<<"etc", "passwd">> :> FileNode(Secret))

\* The symlinks a host process may create: to a file and to a directory outside the
\* workspace, and to a file outside it that does not exist.
HostLinks == {<<"evil", <<"etc", "passwd">>>>, <<"linkdir", <<"etc">>>>,
              <<"dang", <<"etc", "new">>>>}

FsPaths == {<<"a">>, <<"evil">>, <<"linkdir", "/", "passwd">>,
            <<".", ".", "/", "etc", "/", "passwd">>}

ListPaths == {<<>>, <<"linkdir">>, <<"/", "etc">>}

PyEffects ==
    {[write |-> FALSE, path |-> <<>>, content |-> NoContent]}
    \cup {[write |-> TRUE, path |-> VRoot \o p, content |-> [tag |-> "py", len |-> 1]] :
            p \in {<<"evil">>, <<"dang">>, <<"out">>}}

InitFs ==
    /\ hfs = BaseHost
    /\ mvfs = EmptyVfs
    /\ mgrInit = FALSE
    /\ wvfs = EmptyVfs
    /\ touched = {}
    /\ calls = [c \in Callers |-> IdleCall]
    /\ ExecIdle
    /\ LockIdle
    /\ OutIdle

NextFs ==
    \/ \E p \in FsPaths : ReadFile(1, p)
    \/ \E p \in ListPaths : ListFiles(1, p)
    \/ \E p \in FsPaths : DeleteFile(1, p)
    \/ \E p \in FsPaths : WriteFileCall(1, p, [tag |-> "w", len |-> 1])
    \/ WriteFileCheck(1)
    \/ WriteFileMeasure(1)
    \/ WriteFileMkdir(1)
    \/ WriteFileHostWrite(1)
    \/ \E e \in PyEffects : ExecutePython(1, e)
    \/ \E l \in HostLinks : HostSymlink(l[1], l[2])

SpecFs == InitFs /\ [][NextFs]_vars


(***************************************************************************)
(* SpecPath: one file tool call on an arbitrary input string.  The server  *)
(* has started: main() has awaited pyodideManager.initialize(), which      *)
(* synced the host workspace in.  The input the client passes is held in   *)
(* calls[1].filePath from the start.                                       *)
(***************************************************************************)
\* The tokens input strings are made of.
Alphabet == {SEP, ".", "workspace", "a"}

TraversalInputs ==
    {<<".", ".", "/", "etc", "/", "passwd">>,
     <<"a", "/", ".", ".", "/", ".", ".", "/", "b">>,
     <<"/", "etc", "/", "passwd">>,
     <<".", ".">>,
     <<"/", "workspace", "/", ".", ".", "/", "etc">>}

PathInputs == UNION {[1..n -> Alphabet] : n \in 0..MaxLen} \cup TraversalInputs

\* The workspace with symlinks to a file and a directory outside it already there.
LinkedHost ==
    (<<"ws", "evil">> :> LinkNode(TRUE, <<"etc", "passwd">>))
    @@ (<<"ws", "linkdir">> :> LinkNode(TRUE, <<"etc">>)) @@ BaseHost

InitPath ==
    /\ hfs \in {BaseHost, LinkedHost}
    /\ mvfs = initialize(hfs, EmptyVfs, FALSE).vfs
    /\ mgrInit = TRUE
    /\ wvfs = EmptyVfs
    /\ touched = {}
    /\ \E input \in PathInputs :
           calls = [c \in Callers |->
                       IF c = 1 THEN [IdleCall EXCEPT !.filePath = input] ELSE IdleCall]
    /\ ExecIdle
    /\ LockIdle
    /\ OutIdle

NextPath ==
    \/ calls[1].n = 0 /\ ReadFile(1, calls[1].filePath)
    \/ calls[1].n = 0 /\ ListFiles(1, calls[1].filePath)
    \/ calls[1].n = 0 /\ DeleteFile(1, calls[1].filePath)
    \/ calls[1].n = 0 /\ WriteFileCall(1, calls[1].filePath, Data)
    \/ WriteFileCheck(1)
    \/ WriteFileMeasure(1)
    \/ WriteFileMkdir(1)
    \/ WriteFileHostWrite(1)

SpecPath == InitPath /\ [][NextPath]_vars


(***************************************************************************)
(* SecureFs (src/core/secure-fs.ts): the wrapper of the backing filesystem *)
(* this.inner, both rooted at WORKSPACE_DIR.  A method's outcome is the    *)
(* host filesystem after it, the calls of this.inner it made (touched) and *)
(* its result; a thrown error is a failure with the error's code.          *)
(***************************************************************************)
SymlinkSecurityError == "SymlinkSecurityError"

toRealPath(virtualPath) == PathJoin(WORKSPACE_DIR, Normalize(virtualPath))

isWithinWorkspace(realPath) == realPath = ROOT_REAL \/ IsPrefix(ROOT_REAL, realPath)

\* The loop of validateParentPath, entered with currentPath = hostPath.
RECURSIVE validateParentPath(_, _)
validateParentPath(fs, currentPath) ==
    IF currentPath = WORKSPACE_DIR \/ currentPath = Dirname(currentPath) THEN Ok(currentPath)
    ELSE With(Realpath(fs, Dirname(currentPath)), LAMBDA r :
             IF r.ok
             THEN IF isWithinWorkspace(r.path) THEN Ok(r.path) ELSE Fail(SymlinkSecurityError)
             ELSE IF r.code # "ENOENT" THEN Fail(r.code)
             ELSE validateParentPath(fs, Dirname(currentPath)))

SecureFs_validatePath(fs, virtualPath) ==
    With(Realpath(fs, toRealPath(virtualPath)), LAMBDA r :
        IF r.ok
        THEN IF isWithinWorkspace(r.path) THEN Ok(r.path) ELSE Fail(SymlinkSecurityError)
        ELSE IF r.code = "ENOENT" THEN validateParentPath(fs, toRealPath(virtualPath))
        ELSE Fail(r.code))

\* path.resolve(dir, names) and path.normalize of an absolute path: lexical.
RECURSIVE ResolveNames(_, _)
ResolveNames(acc, names) ==
    IF names = <<>> THEN acc
    ELSE IF names[1] = ".." THEN ResolveNames(Dirname(acc), Tail(names))
    ELSE ResolveNames(Append(acc, names[1]), Tail(names))

\* A symlink target: absolute or relative, as a sequence of names.
SymTarget(isAbs, names) == [abs |-> isAbs, names |-> names]

validateSymlinkTarget(fs, target, linkPath) ==
    With(IF target.abs THEN target.names
         ELSE ResolveNames(Dirname(toRealPath(linkPath)), target.names),
         LAMBDA absoluteTarget :
        IF ~isWithinWorkspace(ResolveNames(<<>>, absoluteTarget)) THEN Fail(SymlinkSecurityError)
        ELSE With(Realpath(fs, absoluteTarget), LAMBDA r :
                 IF r.ok
                 THEN IF isWithinWorkspace(r.path) THEN Ok(r.path)
                      ELSE Fail(SymlinkSecurityError)
                 ELSE IF r.code # "ENOENT" THEN Fail(r.code)
                 ELSE Ok(absoluteTarget)))

\* The real path of a host path or, when it does not exist, of its nearest existing
\* ancestor: what validatePath and validateParentPath compare with the root.
RECURSIVE NearestReal(_, _)
NearestReal(fs, hostPath) ==
    With(Realpath(fs, hostPath), LAMBDA r :
        IF r.ok THEN r.path
        ELSE IF hostPath = <<>> THEN <<>>
        ELSE NearestReal(fs, Dirname(hostPath)))

\* One path argument handed to this.inner by method op; validated tells whether
\* validatePath had returned for it.
Delegated(op, fs, virtualPath, validated) ==
    [op |-> op, real |-> NearestReal(fs, toRealPath(virtualPath)), checked |-> validated,
     by |-> "securefs"]

SOut(h, t, r) == [hfs |-> h, touched |-> t, res |-> r]

IRes(h, e) == [hfs |-> h, err |-> e]

\* An rm that follows a symlink and removes what it points to.
InnerRmFollow(fs, hostPath) ==
    With(Realpath(fs, hostPath), LAMBDA r :
        IF ~r.ok \/ r.path = <<>> \/ Children(fs, r.path) # {}
        THEN IRes(fs, TRUE)
        ELSE IRes(Remove(fs, r.path), FALSE))

\* this.inner: the backing filesystem acting on host paths below its root.
InnerRm(fs, hostPath) ==
    With(LPath(fs, hostPath), LAMBDA l :
        IF ~l.ok \/ l.path = <<>> \/ ~Exists(fs, l.path) \/ Children(fs, l.path) # {}
        THEN IRes(fs, TRUE)
        ELSE IRes(Remove(fs, l.path), FALSE))

InnerCp(fs, src, dest) ==
    With(Realpath(fs, src), LAMBDA r :
        IF ~r.ok \/ NodeAt(fs, r.path).kind # "file" THEN IRes(fs, TRUE)
        ELSE With(HostWrite(HSt(fs, {}, FALSE), dest, fs[r.path].content, TRUE), LAMBDA w :
                 IRes(w.hfs, w.err)))

Inner(fs, op, hostPath, hostPath2, target) ==
    CASE op \in {"readFile", "readFileBuffer"} ->
            IRes(fs, ~(Realpath(fs, hostPath).ok
                       /\ NodeAt(fs, Realpath(fs, hostPath).path).kind = "file"))
      [] op \in {"stat", "chmod", "exists"} -> IRes(fs, ~Realpath(fs, hostPath).ok)
      [] op \in {"readdir", "readdirWithFileTypes"} ->
            IRes(fs, ~(Realpath(fs, hostPath).ok
                       /\ NodeAt(fs, Realpath(fs, hostPath).path).kind = "dir"))
      [] op = "lstat" ->
            IRes(fs, ~(LPath(fs, hostPath).ok /\ Exists(fs, LPath(fs, hostPath).path)))
      [] op = "readlink" ->
            IRes(fs, ~(/\ LPath(fs, hostPath).ok
                       /\ Exists(fs, LPath(fs, hostPath).path)
                       /\ NodeAt(fs, LPath(fs, hostPath).path).kind = "link"))
      [] op \in {"writeFile", "appendFile"} ->
            With(HostWrite(HSt(fs, {}, FALSE), hostPath, [tag |-> "sh", len |-> 1], TRUE),
                 LAMBDA w : IRes(w.hfs, w.err))
      [] op = "mkdir" ->
            With(HostMkdir(HSt(fs, {}, FALSE), hostPath, TRUE), LAMBDA m : IRes(m.hfs, m.err))
      [] op = "rm" -> InnerRm(fs, hostPath)
      [] op \in {"cp", "link"} -> InnerCp(fs, hostPath, hostPath2)
      [] op = "mv" ->
            With(InnerCp(fs, hostPath, hostPath2), LAMBDA c :
                IF c.err THEN c ELSE InnerRm(c.hfs, hostPath))
      [] op = "symlink" ->
            With(LPath(fs, hostPath), LAMBDA l :
                IF ~l.ok \/ Exists(fs, l.path) THEN IRes(fs, TRUE)
                ELSE IRes((l.path :> LinkNode(target.abs, target.names)) @@ fs, FALSE))

Returned1(I) == IF I.err THEN Failure(ERR_IO) ELSE Success(NoContent, {})

\* readFile, readFileBuffer, writeFile, appendFile, stat, mkdir, readdir,
\* readdirWithFileTypes and chmod: validatePath, then this.inner.<op>.
SecureFs_op(fs, op, filePath) ==
    With(SecureFs_validatePath(fs, filePath), LAMBDA v :
        IF ~v.ok THEN SOut(fs, {}, Failure(v.code))
        ELSE With(Inner(fs, op, toRealPath(filePath), <<>>, SymTarget(TRUE, <<>>)), LAMBDA I :
                 SOut(I.hfs, {Delegated(op, fs, filePath, TRUE)}, Returned1(I))))

\* An exists without the catch block: the error of the validation is thrown.
SecureFs_existsUncaught(fs, filePath) == SecureFs_op(fs, "exists", filePath)

\* exists: a SymlinkSecurityError of the validation is answered with false.
SecureFs_exists(fs, filePath) ==
    With(SecureFs_validatePath(fs, filePath), LAMBDA v :
        IF v.ok
        THEN SOut(fs, {Delegated("exists", fs, filePath, TRUE)},
                  Success([tag |-> IF Realpath(fs, toRealPath(filePath)).ok THEN "true"
                                   ELSE "false", len |-> 0], {}))
        ELSE IF v.code = SymlinkSecurityError
        THEN SOut(fs, {}, Success([tag |-> "false", len |-> 0], {}))
        ELSE SOut(fs, {}, Failure(v.code)))

\* lstat and readlink: validateParentPath only, the entry itself is not resolved.
SecureFs_lstat(fs, op, filePath) ==
    With(validateParentPath(fs, toRealPath(filePath)), LAMBDA v :
        IF ~v.ok THEN SOut(fs, {}, Failure(v.code))
        ELSE With(Inner(fs, op, toRealPath(filePath), <<>>, SymTarget(TRUE, <<>>)), LAMBDA I :
                 SOut(I.hfs, {Delegated(op, fs, filePath, FALSE)}, Returned1(I))))

\* rm: fs.promises.lstat(hostPath) decides what is validated; when it throws ENOENT
\* and force is not set, this.inner.rm is called from the catch block.
SecureFs_rm(fs, filePath, force) ==
    With(toRealPath(filePath), LAMBDA hostPath :
    With(LPath(fs, hostPath), LAMBDA lstats :
        IF lstats.ok /\ Exists(fs, lstats.path)
        THEN With(IF NodeAt(fs, lstats.path).kind = "link"
                  THEN validateParentPath(fs, hostPath)
                  ELSE SecureFs_validatePath(fs, filePath), LAMBDA v :
                 IF ~v.ok THEN SOut(fs, {}, Failure(v.code))
                 ELSE With(InnerRm(fs, hostPath), LAMBDA I :
                          SOut(I.hfs,
                               {Delegated(IF NodeAt(fs, lstats.path).kind = "link"
                                          THEN "rm-symlink" ELSE "rm", fs, filePath,
                                          NodeAt(fs, lstats.path).kind # "link")},
                               Returned1(I))))
        ELSE IF lstats.ok \/ lstats.code = "ENOENT"
        THEN IF ~force
             THEN With(InnerRm(fs, hostPath), LAMBDA I :
                      SOut(I.hfs, {Delegated("rm", fs, filePath, FALSE)}, Returned1(I)))
             ELSE SOut(fs, {}, Success(NoContent, {}))
        ELSE SOut(fs, {}, Failure(lstats.code))))

\* cp, mv and link: validatePath of both paths, then this.inner.<op>.
SecureFs_cp(fs, op, src, dest) ==
    With(SecureFs_validatePath(fs, src), LAMBDA v :
    With(SecureFs_validatePath(fs, dest), LAMBDA v2 :
        IF ~v.ok THEN SOut(fs, {}, Failure(v.code))
        ELSE IF ~v2.ok THEN SOut(fs, {}, Failure(v2.code))
        ELSE With(Inner(fs, op, toRealPath(src), toRealPath(dest), SymTarget(TRUE, <<>>)),
                  LAMBDA I :
                 SOut(I.hfs, {Delegated(op, fs, src, TRUE), Delegated(op, fs, dest, TRUE)},
                      Returned1(I)))))

SecureFs_symlink(fs, target, linkPath) ==
    With(SecureFs_validatePath(fs, linkPath), LAMBDA v :
    With(validateSymlinkTarget(fs, target, linkPath), LAMBDA v2 :
        IF ~v.ok THEN SOut(fs, {}, Failure(v.code))
        ELSE IF ~v2.ok THEN SOut(fs, {}, Failure(v2.code))
        ELSE With(Inner(fs, "symlink", toRealPath(linkPath), <<>>, target), LAMBDA I :
                 SOut(I.hfs, {Delegated("symlink", fs, linkPath, TRUE)}, Returned1(I)))))

(***************************************************************************)
(* SpecSecureFs: one client of SecureFs (the bash tool's filesystem) on a  *)
(* workspace in which symlinks to places outside it appear.                *)
(***************************************************************************)
\* A SecureFs method is called and settles with outcome O.
SecureFsCall(c, op, filePath, O) ==
    /\ CanCall(c)
    /\ hfs' = O.hfs
    /\ touched' = O.touched
    /\ Finish(c, op, filePath, NoContent, O.res)
    /\ UNCHANGED <<mvfs, mgrInit, wvfs>>
    /\ UNCHANGED <<execVars, lockVars, outVars>>

SecurePaths == {<<"a">>, <<"new">>, <<"evil">>, <<"linkdir", "/", "passwd">>,
                <<"linkdir", "/", "missing">>, <<".", ".", "/", "etc", "/", "passwd">>}

SecureTargets == {SymTarget(TRUE, <<"etc", "passwd">>), SymTarget(FALSE, <<"a">>),
                  SymTarget(FALSE, <<"..", "etc">>)}

ValidatedOps == {"readFile", "readFileBuffer", "writeFile", "appendFile", "stat", "mkdir",
                 "readdir", "readdirWithFileTypes", "chmod"}

NextSecureFs ==
    \/ \E op \in ValidatedOps, p \in SecurePaths :
           SecureFsCall(1, op, p, SecureFs_op(hfs, op, p))
    \/ \E p \in SecurePaths : SecureFsCall(1, "exists", p, SecureFs_exists(hfs, p))
    \/ \E op \in {"lstat", "readlink"}, p \in SecurePaths :
           SecureFsCall(1, op, p, SecureFs_lstat(hfs, op, p))
    \/ \E p \in SecurePaths, force \in BOOLEAN :
           SecureFsCall(1, "rm", p, SecureFs_rm(hfs, p, force))
    \/ \E op \in {"cp", "mv", "link"}, p \in SecurePaths,
          q \in {<<"new">>, <<"evil">>, <<"linkdir", "/", "missing">>} :
           SecureFsCall(1, op, p, SecureFs_cp(hfs, op, p, q))
    \/ \E t \in SecureTargets, p \in SecurePaths :
           SecureFsCall(1, "symlink", p, SecureFs_symlink(hfs, t, p))
    \/ \E l \in HostLinks : HostSymlink(l[1], l[2])

SpecSecureFs == InitFs /\ [][NextSecureFs]_vars


(***************************************************************************)
(* Claims.                                                                 *)
(***************************************************************************)
Quiescent == \A c \in Callers : calls[c].pc = "idle"

Issued == {c \in Callers : calls[c].op = "write"}

RECURSIVE SumLen(_)
SumLen(S) ==
    IF S = {} THEN 0
    ELSE LET c == CHOOSE x \in S : TRUE IN calls[c].content.len + SumLen(S \ {c})

InitialSize == getWorkspaceSize(FilledWorkspace).size

\* C1: with every concurrent write_file call of at most MAX_FILE_SIZE, started from a
\* workspace within the limit, the measured workspace size after all calls have
\* completed is at most MAX_WORKSPACE_SIZE.
C1_SizeWithinLimitWhenDone ==
    (/\ Quiescent
     /\ InitialSize <= MAX_WORKSPACE_SIZE
     /\ \A c \in Issued : calls[c].content.len <= MAX_FILE_SIZE)
    => getWorkspaceSize(hfs).size <= MAX_WORKSPACE_SIZE

\* C2: when the sizes of the concurrent write_file calls (each at most MAX_FILE_SIZE,
\* each to a new file of its own), added to the workspace size they started from,
\* exceed MAX_WORKSPACE_SIZE, at least one call returns the WorkspaceFull error.
C2_SomeCallWorkspaceFull ==
    (/\ Quiescent
     /\ \A c \in Issued : calls[c].content.len <= MAX_FILE_SIZE
     /\ InitialSize + SumLen(Issued) > MAX_WORKSPACE_SIZE)
    => \E c \in Issued : calls[c].res.error = ERR_WORKSPACE_FULL



\* C6: read_file, write_file, list_files and delete_file never read, write, list or
\* delete a host path whose symlink-resolved location is outside ROOT_REAL: every host
\* access the manager makes for a file tool is confined.
C6_FileToolsConfined ==
    \A t \in touched : t.by = "manager" => Confined(t.real)

\* C9: the host-to-virtual sync that runs before Python code never copies in the
\* content of a host file whose symlink-resolved location is outside ROOT_REAL.
C9_SyncInReadsConfined ==
    \A t \in touched : (t.by = "worker" /\ t.op = "read") => Confined(t.real)

\* C10: every host file write and directory creation of the virtual-to-host sync is
\* preceded by a confinement check that passed, and lands inside the workspace.
C10_SyncOutChecked ==
    \A t \in touched : t.op \in {"write", "mkdir"} => (t.checked /\ Confined(t.real))


\* C3: every dispatched execute_python call returns within PYTHON_EXECUTION_TIMEOUT_MS
\* plus the grace of being dispatched, with the worker's result or with a failed
\* Timeout result whose error names the configured duration; none stays pending longer.
C3_ReturnsWithinTimeout ==
    \A c \in Clients :
        /\ execs[c].pc = "pending" =>
              execs[c].elapsed <= PYTHON_EXECUTION_TIMEOUT_MS + GraceMs
        /\ (execs[c].res.done /\ execs[c].res.from # "supervisor") =>
              /\ execs[c].res.elapsed <= PYTHON_EXECUTION_TIMEOUT_MS + GraceMs
              /\ \/ execs[c].res.from = "worker"
                 \/ /\ execs[c].res.from = "timeout"
                    /\ ~execs[c].res.success
                    /\ execs[c].res.error =
                          "Execution timed out after "
                          \o ToString(PYTHON_EXECUTION_TIMEOUT_MS) \o "ms"

\* A call whose code never returns has come back with Timeout, after the timeout.
C3_Witness ==
    \E c \in Clients :
        /\ execs[c].res.done
        /\ execs[c].code = "loop"
        /\ execs[c].res.from = "timeout"
        /\ execs[c].res.elapsed >= PYTHON_EXECUTION_TIMEOUT_MS

\* C4: after a call has returned Timeout, the client's next call with code that
\* returns succeeds (given a worker that loads and answers in time).
C4_NextCallSucceeds ==
    (/\ execs[1].res.done
     /\ execs[1].after
     /\ execs[1].code = "ok"
     /\ execs[1].res.from # "timeout"
     /\ execs[1].res.error \notin {ERR_INIT_FAILED, ERR_INIT_TIMEOUT})
    => execs[1].res.success

\* C5: execute requests are serialized: a worker is processing at most one at a time.
C5_OneRequestAtATime ==
    \A w \in 1..MaxWorkers : Cardinality(threads[w].active) <= 1


\* What lies outside the workspace on the host.
OutsideOf(fs) == {<<p, fs[p]>> : p \in {q \in DOMAIN fs : ~Confined(q)}}

NoLinks(fs) == \A p \in DOMAIN fs : fs[p].kind # "link"

\* C7: whatever the input string, validatePath either rejects it with one of its two
\* errors or returns a normalized path that is /workspace or begins with /workspace/;
\* a tool called with a rejected input returns that error and touches no host file,
\* and on a workspace without symlinks no tool touches anything outside it; for
\* ../etc/passwd, a/../../b, /etc/passwd, .. and /workspace/../etc every file tool
\* returns an error and nothing outside the workspace is read, created or changed.
C7_PathGuard ==
    \A vp \in {validatePath(calls[1].filePath)} :
        /\ vp.ok => /\ \/ vp.path = VIRTUAL_WORKSPACE
                       \/ StartsWith(vp.path, VIRTUAL_WORKSPACE \o <<SEP>>)
                    /\ Normalize(vp.path) = vp.path
                    /\ IsPrefix(WORKSPACE_DIR, virtualToHostPath(vp.path))
        /\ ~vp.ok => /\ vp.error \in {ERR_TRAVERSAL, ERR_DOTDOT}
                     /\ calls[1].pc \in {"idle", "await_init"}
                     /\ touched = {}
                     /\ hfs \in {BaseHost, LinkedHost}
                     /\ calls[1].res.done =>
                            ~calls[1].res.success /\ calls[1].res.error = vp.error
        /\ calls[1].filePath \in TraversalInputs => ~vp.ok
        /\ NoLinks(hfs) => \A t \in touched : Confined(t.real)
        /\ OutsideOf(hfs) = OutsideOf(BaseHost)

C7_Witness ==
    /\ calls[1].filePath = <<"a", "/", ".", ".", "/", ".", ".", "/", "b">>
    /\ calls[1].op = "write"
    /\ calls[1].res.done
    /\ ~calls[1].res.success


\* C8: every call of the backing filesystem made by a SecureFs method other than
\* lstat, readlink and rm of a symlink is for paths that passed validation: the real
\* path of each path argument (of its nearest existing ancestor when it does not
\* exist) is the resolved root or lies under it.
C8_DelegatesOnlyValidated ==
    \A t \in touched :
        (t.by = "securefs" /\ t.op \notin {"lstat", "readlink", "rm-symlink"}) =>
            isWithinWorkspace(t.real)


\* The host path that corresponds to the virtual path vpath under /workspace.
HostOf(vpath) == WORKSPACE_DIR \o SubSeq(vpath, Len(VRoot) + 1, Len(vpath))

\* C11: when an execute_python call whose code wrote a file under /workspace has
\* returned, the host holds a file with the same bytes at the corresponding path.
C11_WrittenFileOnHost ==
    (calls[1].op = "python" /\ calls[1].res.done /\ calls[1].filePath # <<>>) =>
        \A r \in {Realpath(hfs, HostOf(calls[1].filePath))} :
            /\ r.ok
            /\ NodeAt(hfs, r.path).kind = "file"
            /\ NodeAt(hfs, r.path).content = calls[1].content

(***************************************************************************)
(* SpecBashPy: execute_bash and execute_python on the started server.      *)
(* Client 1 runs a bash command that writes a file and then a Python       *)
(* program that reads it; client 2 makes other tool calls at any time.     *)
(* The worker thread runs beside the main thread, so a Python execution    *)
(* is two steps: sync in and run, then sync out.                           *)
(***************************************************************************)
\* The bytes a bash command writes through SecureFs.writeFile.
BashBytes == [tag |-> "sh", len |-> 1]

\* The virtual path of a host path of the workspace.
VirtualOf(hostPath) == VRoot \o SubSeq(hostPath, Len(WORKSPACE_DIR) + 1, Len(hostPath))

\* The execute_bash handler: bashManager.execute (the command writes filePath through
\* SecureFs), then pyodideManager.syncHostToVirtual().
ExecuteBash(c, filePath) ==
    /\ CanCall(c)
    /\ \E O \in {SecureFs_op(hfs, "writeFile", filePath)} :
       \E S \in {IF mgrInit
                 THEN MgrSyncHostPathToVirtual(O.hfs, St(mvfs, {}, FALSE), WORKSPACE_DIR, VRoot)
                 ELSE St(mvfs, {}, FALSE)} :
           /\ hfs' = O.hfs
           /\ mvfs' = S.vfs
           /\ touched' = O.touched \cup S.touched
           /\ Finish(c, "bash", filePath, BashBytes,
                     IF S.err THEN Failure(ERR_IO) ELSE O.res)
    /\ UNCHANGED <<mgrInit, wvfs>>
    /\ UNCHANGED <<execVars, lockVars, outVars>>

\* pyodide-worker.ts executeCode up to the end of runPythonAsync: sync in, then the
\* user's code, which reads readPath and does effect.
PyBegin(c, effect, readPath) ==
    /\ CanCall(c)
    /\ \E S \in {syncHostToVirtual(hfs, St(wvfs, {}, FALSE), WORKSPACE_DIR, VRoot)} :
           /\ touched' = By("worker", S.touched)
           /\ IF S.err
              THEN /\ wvfs' = S.vfs
                   /\ Finish(c, "python", readPath, NoContent, Failure(ERR_IO))
              ELSE /\ wvfs' = PyRun(S.vfs, effect)
                   /\ calls' = [calls EXCEPT ![c] =
                          [IdleCall EXCEPT !.pc = "py_running", !.op = "python",
                                           !.filePath = readPath, !.n = calls[c].n,
                                           !.captured = IF VIsFile(S.vfs, readPath)
                                                        THEN S.vfs[readPath].content
                                                        ELSE NoContent]]
    /\ UNCHANGED <<hfs, mvfs, mgrInit>>
    /\ UNCHANGED <<execVars, lockVars, outVars>>

\* The rest of executeCode: sync out (again in the catch block when it throws) and
\* the result message.
PyEnd(c) ==
    /\ calls[c].pc = "py_running"
    /\ \E H1 \in {syncVirtualToHost(wvfs, HSt(hfs, {}, FALSE), VRoot, WORKSPACE_DIR)} :
       \E H \in {IF H1.err
                 THEN syncVirtualToHost(wvfs, HSt(H1.hfs, H1.touched, FALSE), VRoot,
                                        WORKSPACE_DIR)
                 ELSE H1} :
           /\ hfs' = H.hfs
           /\ touched' = By("worker", H.touched)
           /\ calls' = [calls EXCEPT ![c].pc = "idle", ![c].n = calls[c].n + 1,
                                     ![c].res = IF H.err THEN Failure(ERR_IO)
                                                ELSE Success(calls[c].captured, {})]
    /\ UNCHANGED <<mvfs, mgrInit, wvfs>>
    /\ UNCHANGED <<execVars, lockVars, outVars>>

\* The files the bash command of client 1 writes: an existing one and a new one.
BashPaths == {<<"a">>, <<"new">>}

\* What the Python programs of client 2 do: nothing, or write a file of their own.
OtherEffects ==
    {[write |-> FALSE, path |-> <<>>, content |-> NoContent],
     [write |-> TRUE, path |-> VRoot \o <<"out">>, content |-> [tag |-> "py", len |-> 1]]}

InitBashPy ==
    /\ hfs = BaseHost
    /\ mvfs = initialize(hfs, EmptyVfs, FALSE).vfs
    /\ mgrInit = TRUE
    /\ wvfs = EmptyVfs
    /\ touched = {}
    /\ calls = [c \in Callers |-> IdleCall]
    /\ ExecIdle
    /\ LockIdle
    /\ OutIdle

NextBashPy ==
    \/ \E p \in BashPaths : calls[1].n = 0 /\ ExecuteBash(1, p)
    \/ /\ calls[1].op = "bash"
       /\ PyBegin(1, [write |-> FALSE, path |-> <<>>, content |-> NoContent],
                  VirtualOf(toRealPath(calls[1].filePath)))
    \/ \E e \in OtherEffects, p \in BashPaths : PyBegin(2, e, VirtualOf(toRealPath(p)))
    \/ \E c \in {1, 2} : PyEnd(c)
    \/ \E p \in {<<"a">>, <<"out">>} : ReadFile(3, p)
    \/ \E p \in {<<>>} : ListFiles(3, p)

SpecBashPy == InitBashPy /\ [][NextBashPy]_vars

\* C12: when the execute_python call that client 1 makes right after its successful
\* execute_bash call runs, the Python program reads at the virtual path exactly the
\* bytes the bash command wrote, whatever the other clients (none of which writes
\* that file) did in between.
C12_PythonReadsBashBytes ==
    [][(/\ calls[1].op = "bash"
        /\ calls[1].res.success
        /\ calls'[1].op = "python"
        /\ calls'[1].pc = "py_running")
       => calls'[1].captured = calls[1].content]_vars

(***************************************************************************)
(* SpecRoundTrip: one client calls write_file and then read_file of the    *)
(* same path, on workspaces of several sizes in which the path may exist.  *)
(***************************************************************************)
\* A workspace of n filler files and the file a of alen MiB.
RoundTripHost(n, alen) ==
    [p \in {WORKSPACE_DIR, <<"ws", "a">>}
           \cup {Append(WORKSPACE_DIR, FillName(i)) : i \in 1..n} |->
        IF p = WORKSPACE_DIR THEN DirNode
        ELSE IF p = <<"ws", "a">> THEN FileNode([tag |-> "old", len |-> alen])
        ELSE FileNode([tag |-> "fill", len |-> MAX_FILE_SIZE])]

RoundTripPaths == {<<"a">>, <<"new">>, <<"d", "/", "new">>}

\* The workspace size that results from writing content c at hostPath in h.
ResultingSize(h, hostPath, c) ==
    getWorkspaceSize(h).size
    - (IF Exists(h, hostPath) /\ h[hostPath].kind = "file" THEN h[hostPath].content.len ELSE 0)
    + c.len

InitRoundTrip ==
    /\ hfs \in {RoundTripHost(n, alen) : n \in {0, FillFiles - 1, FillFiles},
                                        alen \in {5, MAX_FILE_SIZE}}
    /\ mvfs = EmptyVfs
    /\ mgrInit = FALSE
    /\ wvfs = EmptyVfs
    /\ touched = {}
    /\ calls = [c \in Callers |-> IdleCall]
    /\ ExecIdle
    /\ LockIdle
    /\ OutIdle

NextRoundTrip ==
    \/ /\ calls[1].n = 0
       /\ \E p \in RoundTripPaths, content \in QuotaContents : WriteFileCall(1, p, content)
    \/ WriteFileCheck(1)
    \/ WriteFileMeasure(1)
    \/ WriteFileMkdir(1)
    \/ WriteFileHostWrite(1)
    \/ calls[1].op = "write" /\ ReadFile(1, calls[1].filePath)

SpecRoundTrip == InitRoundTrip /\ [][NextRoundTrip]_vars

\* C13: read_file(p) right after write_file(p, c) returns c, for every workspace
\* the write started from (p existing or not), whenever c is at most MAX_FILE_SIZE
\* and the workspace with c at p is at most MAX_WORKSPACE_SIZE.
C13_WriteThenRead ==
    [][(/\ calls[1].op = "write"
        /\ calls[1].res.done
        /\ calls'[1].op = "read"
        /\ calls[1].content.len <= MAX_FILE_SIZE
        /\ ResultingSize(hfs, virtualToHostPath(validatePath(calls[1].filePath).path),
                         calls[1].content) <= MAX_WORKSPACE_SIZE)
       => (/\ calls'[1].res.success
           /\ calls'[1].res.content = calls[1].content)]_vars

(***************************************************************************)
(* SpecGrow: the three writers of the host workspace (write_file, the      *)
(* sync out of execute_python, execute_bash through SecureFs) on a         *)
(* workspace at or just below MAX_WORKSPACE_SIZE.                          *)
(***************************************************************************)
GrowEffects ==
    {[write |-> TRUE, path |-> VRoot \o <<p>>, content |-> [tag |-> "py", len |-> n]] :
        p \in {"out"}, n \in {1, MAX_FILE_SIZE}}

InitGrow ==
    /\ hfs \in {RoundTripHost(FillFiles, alen) : alen \in {5, MAX_FILE_SIZE}}
    /\ mvfs = initialize(hfs, EmptyVfs, FALSE).vfs
    /\ mgrInit = TRUE
    /\ wvfs = EmptyVfs
    /\ touched = {}
    /\ calls = [c \in Callers |-> IdleCall]
    /\ ExecIdle
    /\ LockIdle
    /\ OutIdle

NextGrow ==
    \/ \E p \in BashPaths : ExecuteBash(1, p)
    \/ \E e \in GrowEffects : ExecutePython(2, e)
    \/ \E content \in QuotaContents : WriteFileCall(3, <<"new">>, content)
    \/ WriteFileCheck(3)
    \/ WriteFileMeasure(3)
    \/ WriteFileMkdir(3)
    \/ WriteFileHostWrite(3)

SpecGrow == InitGrow /\ [][NextGrow]_vars

\* C14: started from a workspace within the limit, after any sequence of write_file,
\* execute_python and execute_bash calls the measured size of the host workspace is
\* at most MAX_WORKSPACE_SIZE.
C14_GrowthWithinQuota == getWorkspaceSize(hfs).size <= MAX_WORKSPACE_SIZE

\* C15: a write_file call whose content is larger than MAX_FILE_SIZE fails with
\* 'File too large' whatever the size of the workspace (the per-file check comes
\* before the workspace check), and a call whose content is at most MAX_FILE_SIZE
\* never fails with that error.
C15_FileTooLargeFirst ==
    \A c \in Callers :
        (calls[c].op = "write" /\ calls[c].res.done) =>
            (calls[c].res.error = ERR_FILE_TOO_LARGE <=> calls[c].content.len > MAX_FILE_SIZE)

\* A too large write refused with 'File too large' on a workspace that is full.
C15_Witness ==
    /\ calls[1].op = "write"
    /\ calls[1].res.done
    /\ calls[1].content.len > MAX_FILE_SIZE
    /\ calls[1].res.error = ERR_FILE_TOO_LARGE
    /\ getWorkspaceSize(hfs).size >= MAX_WORKSPACE_SIZE

(***************************************************************************)
(* AsyncLock.acquire (src/utils/async-lock.ts).  JavaScript runs one job   *)
(* at a time: a call of acquire, the continuation of an await and the      *)
(* finally block each run to their next await without interruption, and    *)
(* continuations run in the order in which they were queued.               *)
(***************************************************************************)
Keys == {"key1", "key2"}

\* Map.prototype.has, set and delete of this.locks.
Has(L, key) == key \in DOMAIN L

Set(L, key, p) == (key :> p) @@ [k \in DOMAIN L \ {key} |-> L[k]]

Delete(L, key) == [k \in DOMAIN L \ {key} |-> L[k]]

\* One lock for every key.
HasAny(L, key) == DOMAIN L # {}

\* An `if` in place of the `while`: no test after the await.
BlockedOnce(L, key, woken) == ~woken /\ Has(L, key)

\* A release that is skipped when fn throws (no finally).
ReleasedOnSuccess(L, key, threw) == IF threw THEN L ELSE Delete(L, key)

\* this.locks.has(key), the condition under which an acquirer does not go on.
Held(L, key) == Has(L, key)

\* `while (this.locks.has(key))`: tested when acquire is called and again each time
\* the await in its body has settled (woken).
Blocked(L, key, woken) == Held(L, key)

\* `finally { this.locks.delete(key); ... }`: runs whether fn fulfilled or threw.
Finally(L, key, threw) == Delete(L, key)

\* this.locks.get(key): the acquirer whose lockPromise is stored, 0 for undefined.
Awaited(L, key) == IF Has(L, key) THEN L[key] ELSE 0

Job(kind, p) == [kind |-> kind, p |-> p]

\* The calls and starts are numbered as far as MaxCount; later ones share its number.
MaxCount == NumAcquirers

Count(n) == IF n < MaxCount THEN n + 1 ELSE n

\* acquire from its call, or from a settled await, to its next await: the loop test,
\* then either `await this.locks.get(key)` or the new lockPromise, this.locks.set
\* and the start of fn.
Enter(p, key, woken, A) ==
    IF Blocked(locks, key, woken)
    THEN /\ acq' = [A EXCEPT ![p].pc = "waiting"]
         /\ locks' = locks
         /\ clock' = [clock EXCEPT !.calls = IF woken THEN @ ELSE Count(@)]
         /\ IF Awaited(locks, key) = 0
            THEN /\ jobs' = Append(Tail(jobs), Job("wake", p))
                 /\ waiters' = waiters
            ELSE /\ jobs' = Tail(jobs)
                 /\ waiters' = [waiters EXCEPT ![Awaited(locks, key)] = Append(@, p)]
    ELSE /\ acq' = [A EXCEPT ![p].pc = "running", ![p].turn = Count(clock.starts)]
         /\ locks' = Set(locks, key, p)
         /\ clock' = [calls |-> IF woken THEN clock.calls ELSE Count(clock.calls),
                      starts |-> Count(clock.starts)]
         /\ jobs' = Tail(jobs)
         /\ waiters' = waiters

\* Some code of the program is about to call lock.acquire(key, fn) from a job.
Schedule(p, key, throws) ==
    /\ acq[p].pc = "idle"
    /\ acq' = [acq EXCEPT ![p] = [IdleAcq EXCEPT !.pc = "scheduled", !.key = key,
                                                 !.throws = throws]]
    /\ jobs' = Append(jobs, Job("call", p))
    /\ UNCHANGED <<locks, waiters, clock>>
    /\ UNCHANGED <<fsVars, execVars, outVars>>

\* The job runs: acquire(key, fn) is called.
RunCall(p) ==
    /\ jobs # <<>>
    /\ Head(jobs) = Job("call", p)
    /\ Enter(p, acq[p].key, FALSE, [acq EXCEPT ![p].ticket = Count(clock.calls)])
    /\ UNCHANGED <<fsVars, execVars, outVars>>

\* `await this.locks.get(key)` has settled and the loop goes round.
RunWake(p) ==
    /\ jobs # <<>>
    /\ Head(jobs) = Job("wake", p)
    /\ Enter(p, acq[p].key, TRUE, acq)
    /\ UNCHANGED <<fsVars, execVars, outVars>>

\* The promise of fn() settles, fulfilled or rejected; the continuation of
\* `await fn()` is queued.
FnSettle(p) ==
    /\ acq[p].pc = "running"
    /\ acq' = [acq EXCEPT ![p].pc = "settling"]
    /\ jobs' = Append(jobs, Job("release", p))
    /\ UNCHANGED <<locks, waiters, clock>>
    /\ UNCHANGED <<fsVars, execVars, outVars>>

RECURSIVE Wakes(_)
Wakes(ws) == IF ws = <<>> THEN <<>> ELSE <<Job("wake", Head(ws))>> \o Wakes(Tail(ws))

\* The finally block: this.locks.delete(key) and releaseLock(), which queues the
\* continuations of the acquirers awaiting the lockPromise; acquire then settles
\* as fn did.
RunRelease(p) ==
    /\ jobs # <<>>
    /\ Head(jobs) = Job("release", p)
    /\ locks' = Finally(locks, acq[p].key, acq[p].throws)
    /\ jobs' = Tail(jobs) \o Wakes(waiters[p])
    /\ waiters' = [waiters EXCEPT ![p] = <<>>]
    /\ acq' = [acq EXCEPT ![p].pc = "settled",
                          ![p].outcome = IF acq[p].throws THEN "rejected" ELSE "fulfilled"]
    /\ UNCHANGED clock
    /\ UNCHANGED <<fsVars, execVars, outVars>>

InitLock == FsIdle /\ ExecIdle /\ LockIdle /\ OutIdle

NextLock ==
    \/ \E p \in Acquirers, key \in Keys, throws \in BOOLEAN : Schedule(p, key, throws)
    \/ \E p \in Acquirers : RunCall(p)
    \/ \E p \in Acquirers : RunWake(p)
    \/ \E p \in Acquirers : FnSettle(p)
    \/ \E p \in Acquirers : RunRelease(p)

SpecLock == InitLock /\ [][NextLock]_vars

\* C16: once an acquire has settled, fulfilled or rejected, its key is no longer held
\* by it, and an acquire called on a key whose earlier acquires have all settled
\* (whether their functions returned or threw) starts its function at once.
C16_ReleasedOnEveryExit ==
    /\ [](\A p \in Acquirers : acq[p].pc = "settled" => Awaited(locks, acq[p].key) # p)
    /\ [][\A q \in Acquirers :
             (/\ acq[q].pc = "scheduled"
              /\ acq'[q].pc # "scheduled"
              /\ \A p \in Acquirers \ {q} :
                     acq[p].key = acq[q].key => acq[p].pc \in {"scheduled", "settled"})
             => acq'[q].pc = "running"]_vars

\* An acquire whose function threw has settled, and a later acquire on the same key
\* is running its function.
C16_Witness ==
    \E p, q \in Acquirers :
        /\ acq[p].pc = "settled"
        /\ acq[p].outcome = "rejected"
        /\ acq[q].pc = "running"
        /\ acq[q].key = acq[p].key
        /\ acq[q].ticket > acq[p].ticket

C18_AcquireOrder ==
    \A p, q \in Acquirers :
        (/\ acq[p].key = acq[q].key
         /\ acq[p].ticket # 0
         /\ acq[p].ticket < acq[q].ticket
         /\ acq[q].turn # 0)
        => (acq[p].turn # 0 /\ acq[p].turn < acq[q].turn)

\* C19: an acquire called on a key that no running or unreleased acquire holds starts
\* its function at once, whatever other keys are held at that time.
C19_KeysIndependent ==
    [][\A q \in Acquirers :
          (/\ acq[q].pc = "scheduled"
           /\ acq'[q].pc # "scheduled"
           /\ \A p \in Acquirers \ {q} :
                  acq[p].key = acq[q].key => acq[p].pc \notin {"running", "settling"})
          => acq'[q].pc = "running"]_vars

\* Two functions run at the same time under different keys.
C19_Witness ==
    \E p, q \in Acquirers :
        /\ acq[p].pc = "running"
        /\ acq[q].pc = "running"
        /\ acq[p].key # acq[q].key
        /\ acq[q].ticket > acq[p].ticket

(***************************************************************************)
(* SpecSymlink: one bash client creates symlinks through SecureFs.symlink  *)
(* and another reads through them, on a workspace that holds no symlink at *)
(* the start.                                                              *)
(***************************************************************************)
SymlinkPaths == {<<"l">>, <<"k">>, <<"l", "/", "k">>}

\* The targets ".", "a", "../etc" and "/etc/passwd".
SymlinkTargets == {SymTarget(FALSE, <<>>), SymTarget(FALSE, <<"a">>),
                   SymTarget(FALSE, <<"..", "etc">>), SymTarget(TRUE, <<"etc", "passwd">>)}

NextSymlink ==
    \/ \E t \in SymlinkTargets, p \in SymlinkPaths :
           SecureFsCall(1, "symlink", p, SecureFs_symlink(hfs, t, p))
    \/ \E p \in {<<"k">>, <<"k", "/", "passwd">>} :
           SecureFsCall(2, "readFile", p, SecureFs_op(hfs, "readFile", p))

SpecSymlink == InitFs /\ [][NextSymlink]_vars

\* Where the symlink at host path p points: its target resolved from the directory
\* that holds the link.
PointsTo(h, p) == ResolveNames(IF h[p].abs THEN <<>> ELSE Dirname(p), h[p].target)

\* C20: SecureFs.symlink creates no link whose target, resolved from the directory
\* that holds the link, lies outside the workspace: every symlink in the workspace
\* points inside it.
C20_NoEscapingLink ==
    \A p \in DOMAIN hfs :
        (hfs[p].kind = "link" /\ Confined(p)) => Confined(PointsTo(hfs, p))

\* C21: SecureFs.rm of a path that is itself a symlink, in a directory that resolves
\* inside the workspace, succeeds and removes the link and nothing else, wherever the
\* link points; and no rm removes or changes anything outside the workspace.
C21_RmSymlinkOnly ==
    [][(calls'[1].op = "rm" /\ calls'[1].n = calls[1].n + 1) =>
          /\ \A p \in DOMAIN hfs : ~Confined(p) => (p \in DOMAIN hfs' /\ hfs'[p] = hfs[p])
          /\ \A l \in {LPath(hfs, toRealPath(calls'[1].filePath))} :
                 (/\ l.ok
                  /\ Exists(hfs, l.path)
                  /\ hfs[l.path].kind = "link"
                  /\ Confined(Dirname(l.path)))
                 => (calls'[1].res.success /\ hfs' = Remove(hfs, l.path))]_vars

\* rm("evil") has removed the symlink ws/evil -> /etc/passwd and left /etc/passwd.
C21_Witness ==
    /\ calls[1].op = "rm"
    /\ calls[1].filePath = <<"evil">>
    /\ calls[1].res.success
    /\ \E t \in touched : t.op = "rm-symlink" /\ ~isWithinWorkspace(t.real)
    /\ <<"ws", "evil">> \notin DOMAIN hfs
    /\ <<"etc", "passwd">> \in DOMAIN hfs

\* C22: SecureFs.exists of a path that validatePath rejects with SymlinkSecurityError
\* returns false: it neither throws nor returns true, and it changes nothing.
C22_ExistsFalseOnEscape ==
    [][(/\ calls'[1].op = "exists"
        /\ calls'[1].n = calls[1].n + 1
        /\ SecureFs_validatePath(hfs, calls'[1].filePath).code = SymlinkSecurityError)
       => (/\ calls'[1].res.success
           /\ calls'[1].res.content.tag = "false"
           /\ hfs' = hfs)]_vars

\* exists("evil") has returned false while ws/evil is a symlink to /etc/passwd, which
\* exists.
C22_Witness ==
    /\ calls[1].op = "exists"
    /\ calls[1].filePath = <<"evil">>
    /\ calls[1].res.success
    /\ calls[1].res.content.tag = "false"
    /\ SecureFs_validatePath(hfs, <<"evil">>).code = SymlinkSecurityError
    /\ Realpath(hfs, <<"ws", "evil">>).ok

(***************************************************************************)
(* SpecBashCwd: execute_bash called with a working directory.  The handler *)
(* and BashManager.execute hand command and cwd to the interpreter as they *)
(* are; the command either touches no file (echo hello) or writes the file *)
(* new in its working directory through SecureFs.                          *)
(***************************************************************************)
\* path.join(cwd, name) on token strings.
BashCwdPath(cwd, name) == IF cwd = <<>> THEN name ELSE cwd \o <<SEP>> \o name

\* The execute_bash handler with a cwd argument: bashManager.execute(command, {cwd}),
\* then pyodideManager.syncHostToVirtual().
ExecuteBashIn(c, cwd, writes) ==
    /\ CanCall(c)
    /\ \E O \in {IF writes THEN SecureFs_op(hfs, "writeFile", BashCwdPath(cwd, <<"new">>))
                 ELSE SOut(hfs, {}, Success(NoContent, {}))} :
       \E S \in {IF mgrInit
                 THEN MgrSyncHostPathToVirtual(O.hfs, St(mvfs, {}, FALSE), WORKSPACE_DIR, VRoot)
                 ELSE St(mvfs, {}, FALSE)} :
           /\ hfs' = O.hfs
           /\ mvfs' = S.vfs
           /\ touched' = O.touched \cup S.touched
           /\ Finish(c, "bash", cwd, IF writes THEN BashBytes ELSE NoContent,
                     IF S.err THEN Failure(ERR_IO) ELSE O.res)
    /\ UNCHANGED <<mgrInit, wvfs>>
    /\ UNCHANGED <<execVars, lockVars, outVars>>

\* The cwd values ".", "a", "..", "../..", "/workspace/../.." and "/etc".
CwdInputs ==
    {<<".">>, <<"a">>, <<".", ".">>, <<".", ".", "/", ".", ".">>,
     <<"/", "workspace", "/", ".", ".", "/", ".", ".">>, <<"/", "etc">>}

NextBashCwd ==
    \E c \in {1, 2}, cwd \in CwdInputs, writes \in BOOLEAN : ExecuteBashIn(c, cwd, writes)

SpecBashCwd == InitBashPy /\ [][NextBashCwd]_vars

\* C23: an execute_bash call whose cwd is not a path of the workspace (validatePath
\* refuses it) returns an error.
C23_EscapingCwdRejected ==
    \A c \in Callers :
        (calls[c].op = "bash" /\ calls[c].res.done /\ ~validatePath(calls[c].filePath).ok)
        => ~calls[c].res.success

(***************************************************************************)
(* SpecCrash: one client calling execute_python with code that returns,    *)
(* code that raises and code that never returns, on worker threads that    *)
(* may also end by themselves.                                             *)
(***************************************************************************)
\* Thread w ends by itself (a fatal error while it is ready, or an empty event loop
\* after a failed initialization whose error message has been delivered): the "exit"
\* listener of doInitializeWorker runs.
ThreadExit(w) ==
    /\ threads[w].st \in {"ready", "failed"}
    /\ threads[w].outbox = <<>>
    /\ threads' = [threads EXCEPT ![w].st = "exited", ![w].inbox = <<>>, ![w].active = {},
                                  ![w].initArmed = FALSE]
    /\ workerReady' = FALSE
    /\ worker' = 0
    /\ workerInitPromise' = 0
    /\ UNCHANGED <<execs, fsVars, lockVars, outVars>>

CrashCodes == {"ok", "raise", "loop"}

NextCrash ==
    \/ \E code \in CrashCodes : ExecCall(1, code)
    \/ \E w \in 1..MaxWorkers : ThreadReady(w)
    \/ \E w \in 1..MaxWorkers : ThreadInitFail(w)
    \/ \E w \in 1..MaxWorkers : ThreadStart(w)
    \/ \E w \in 1..MaxWorkers : ThreadFinish(w)
    \/ \E w \in 1..MaxWorkers : OnMessage(w)
    \/ ExecTimeout(1)
    \/ \E w \in 1..MaxWorkers : InitTimeout(w)
    \/ \E w \in 1..MaxWorkers : WorkerExit(w)
    \/ \E w \in 1..MaxWorkers : ThreadExit(w)
    \/ \E d \in TickSteps : Tick(d)

SpecCrash == InitExec /\ [][NextCrash]_vars

\* C24: when a worker thread exits while execute requests are in flight on it, the
\* exit resolves each of them with an error result, and the supervisor holds no
\* worker afterwards.
C24_ExitResolvesInFlight ==
    [][\A w \in 1..MaxWorkers :
          (threads[w].st = "ready" /\ threads'[w].st = "exited")
          => /\ worker' = 0
             /\ ~workerReady'
             /\ \A c \in Attached(w) :
                   /\ execs'[c].pc = "idle"
                   /\ execs'[c].res.done
                   /\ ~execs'[c].res.success]_vars

\* C25: when the initialization of a worker fails (its thread reports an error, or
\* initTimeout runs), the thread is terminated, every call waiting for the
\* initialization fails, and the supervisor is left so that the next call starts a
\* new worker: no worker is ready and no initialization is in progress.
C25_FailedInitTerminated ==
    [][\A w \in 1..MaxWorkers :
          (threads[w].promise = "pending" /\ threads'[w].promise = "rejected")
          => /\ threads'[w].st \in {"terminated", "exited"}
             /\ \A i \in 1..Len(threads[w].waiters) :
                   \E c \in {threads[w].waiters[i]} :
                      /\ execs'[c].pc = "idle"
                      /\ execs'[c].res.done
                      /\ ~execs'[c].res.success
             /\ ~workerReady'
             /\ workerInitPromise' = 0]_vars

\* C26: after an execute_python call whose code raised has returned the worker's
\* failed result, and for as long as the thread that served it is alive (neither
\* killed by a timeout nor exited), the supervisor keeps that thread as its ready
\* worker, so that the next call is served by it without a respawn.
C26_RaiseKeepsWorker ==
    \A c \in Clients :
        (/\ execs[c].pc = "idle"
         /\ execs[c].res.done
         /\ execs[c].code = "raise"
         /\ execs[c].res.from = "worker"
         /\ threads[execs[c].w].st = "ready")
        => (worker = execs[c].w /\ workerReady)

(***************************************************************************)
(* SpecSync: PyodideManager.syncHostToVirtual and syncVirtualToHost on the *)
(* started server, between bash commands that change the host tree,        *)
(* symlinks appearing in the workspace, and file tools that change the     *)
(* virtual tree.                                                           *)
(***************************************************************************)
\* syncHostToVirtual(): the whole workspace into the manager's virtual filesystem.
SyncHostToVirtual(c) ==
    /\ CanCall(c)
    /\ mgrInit
    /\ \E S \in {MgrSyncHostPathToVirtual(hfs, St(mvfs, {}, FALSE), WORKSPACE_DIR, VRoot)} :
           /\ mvfs' = S.vfs
           /\ touched' = S.touched
           /\ Finish(c, "sync_in", <<>>, NoContent,
                     IF S.err THEN Failure(ERR_IO) ELSE Success(NoContent, {}))
    /\ UNCHANGED <<hfs, mgrInit, wvfs>>
    /\ UNCHANGED <<execVars, lockVars, outVars>>

\* syncVirtualToHost(): the whole virtual workspace onto the host.
SyncVirtualToHost(c) ==
    /\ CanCall(c)
    /\ mgrInit
    /\ \E H \in {MgrSyncVirtualPathToHost(mvfs, HSt(hfs, {}, FALSE), VRoot, WORKSPACE_DIR)} :
           /\ hfs' = H.hfs
           /\ touched' = H.touched
           /\ Finish(c, "sync_out", <<>>, NoContent,
                     IF H.err THEN Failure(ERR_IO) ELSE Success(NoContent, {}))
    /\ UNCHANGED <<mvfs, mgrInit, wvfs>>
    /\ UNCHANGED <<execVars, lockVars, outVars>>

\* The paths the bash commands and the file tools act on.
SyncPaths == {<<"new">>, <<"d">>, <<"d", "/", "x">>}

\* The symlinks that appear in the workspace: to a file and to a directory of the
\* workspace, either of which may not exist.
SyncLinks == {<<"l", <<"ws", "new">>>>, <<"ld", <<"ws", "d">>>>}

NextSync ==
    \/ SyncHostToVirtual(1)
    \/ SyncVirtualToHost(1)
    \/ \E p \in SyncPaths : SecureFsCall(3, "writeFile", p, SecureFs_op(hfs, "writeFile", p))
    \/ \E p \in {<<"a">>, <<"d">>} : SecureFsCall(3, "mkdir", p, SecureFs_op(hfs, "mkdir", p))
    \/ \E p \in {<<"a">>, <<"new">>} : SecureFsCall(3, "rm", p, SecureFs_rm(hfs, p, FALSE))
    \/ DeleteFile(2, <<"a">>)
    \/ \E l \in SyncLinks : HostSymlink(l[1], l[2])

SpecSync == InitBashPy /\ [][NextSync]_vars

C29_TimerKillsOwnWorker ==
    [][\A v \in 1..MaxWorkers :
          (threads[v].st # "terminated" /\ threads'[v].st = "terminated")
          => /\ \A c \in Clients :
                   (/\ execs[c].pc = "pending"
                    /\ execs'[c].pc = "idle"
                    /\ execs'[c].res.from = "timeout")
                   => execs[c].w = v
             /\ \A w \in 1..MaxWorkers :
                   (/\ threads[w].initArmed
                    /\ ~threads'[w].initArmed
                    /\ threads'[w].outbox = threads[w].outbox)
                   => w = v]_vars

\* C30: the exit event of a thread that is not the supervisor's current worker (it
\* was terminated, and a newer worker has been spawned since) changes none of the
\* supervisor's worker reference, ready flag and initialization promise.
C30_StaleExitIgnored ==
    [][\A w \in 1..MaxWorkers :
          (/\ threads[w].st = "terminated"
           /\ threads'[w].st = "exited"
           /\ worker # 0
           /\ worker # w)
          => /\ worker' = worker
             /\ workerReady' = workerReady
             /\ workerInitPromise' = workerInitPromise]_vars

\* C31: whenever a call is dispatched (its execute message is posted), the thread it
\* is posted to is alive and has emitted its ready signal.
C31_PostedToReadyWorker ==
    [][\A c \in Clients :
          (execs[c].pc # "pending" /\ execs'[c].pc = "pending")
          => threads'[execs'[c].w].st = "ready"]_vars

\* C32: a call that returned a message of the worker returned the message produced by
\* its own request.
C32_OwnResult ==
    \A c \in Clients :
        (execs[c].res.done /\ execs[c].res.from = "worker") => execs[c].res.of = c

\* C33: the step in which the timeout timer of a call whose code never returns runs
\* terminates no thread on which a different call with code that returns is pending,
\* so that call can still get its result within its own timeout.
C33_TimeoutSparesOthers ==
    [][\A c \in Clients :
          (/\ execs[c].pc = "pending"
           /\ execs[c].code = "loop"
           /\ execs'[c].pc = "idle"
           /\ execs'[c].res.from = "timeout")
          => \A d \in Clients \ {c} :
                (execs[d].pc = "pending" /\ execs[d].code = "ok")
                => threads'[execs[d].w].st = threads[execs[d].w].st]_vars

(***************************************************************************)
(* SpecStdout: the ready worker handling execute messages.  Its message    *)
(* listener starts an executeCode for every message; the executions        *)
(* interleave at their awaits.  The code of request r prints r.            *)
(***************************************************************************)
\* The listener takes the message of request r: executeCode runs to
\* await syncHostToVirtual(...).
RunBegin(r) ==
    /\ runs[r].pc = "idle"
    /\ ~runs[r].done
    /\ runs' = [runs EXCEPT ![r].pc = "sync_in"]
    /\ UNCHANGED <<sink, fsVars, execVars, lockVars>>

\* From the end of the sync in to await py.loadPackagesFromImports(code): a new
\* stdoutBuffer, and py.setStdout / py.setStderr install it.
RunCapture(r) ==
    /\ runs[r].pc = "sync_in"
    /\ sink' = r
    /\ runs' = [runs EXCEPT ![r].pc = "load", ![r].buf = <<>>]
    /\ UNCHANGED <<fsVars, execVars, lockVars>>

\* await py.runPythonAsync(code) to await syncVirtualToHost(...): what the code prints
\* goes to the installed handler.
RunPython(r) ==
    /\ runs[r].pc = "load"
    /\ runs' = IF sink = 0 THEN [runs EXCEPT ![r].pc = "sync_out"]
               ELSE IF sink = r THEN [runs EXCEPT ![r].pc = "sync_out", ![r].buf = Append(@, r)]
               ELSE [runs EXCEPT ![r].pc = "sync_out", ![sink].buf = Append(@, r)]
    /\ UNCHANGED <<sink, fsVars, execVars, lockVars>>

\* The return with stdoutBuffer.join(""), and the finally block, which puts the
\* handlers of process.stdout and process.stderr back.
RunReturn(r) ==
    /\ runs[r].pc = "sync_out"
    /\ sink' = 0
    /\ runs' = [runs EXCEPT ![r].pc = "idle", ![r].stdout = runs[r].buf, ![r].done = TRUE]
    /\ UNCHANGED <<fsVars, execVars, lockVars>>

NextStdout ==
    \/ \E r \in Callers : RunBegin(r)
    \/ \E r \in Callers : RunCapture(r)
    \/ \E r \in Callers : RunPython(r)
    \/ \E r \in Callers : RunReturn(r)

SpecStdout == InitExec /\ [][NextStdout]_vars

\* C34: the stdout returned for a request is exactly what the code of that request
\* printed.
C34_OwnOutput ==
    \A r \in Callers : runs[r].done => runs[r].stdout = <<r>>

\* C35: every thread that is alive (loading or ready, neither terminated nor exited)
\* is the worker the supervisor refers to; hence at most one thread is alive.
C35_NoOrphanWorker ==
    \A w \in 1..MaxWorkers : threads[w].st \in {"loading", "ready"} => worker = w

\* C36: every execute_python call that has ended has returned a result: none has
\* ended by throwing.
C36_AlwaysResultPayload ==
    \A c \in Clients : execs[c].res.done => ~execs[c].res.thrown

(***************************************************************************)
(* SpecDelete: client 1 runs Python programs that never write the file a,  *)
(* client 2 deletes a with delete_file or with a bash rm, and client 3     *)
(* reads and lists.  Nothing in this specification writes a.               *)
(***************************************************************************)
DeleteEffects ==
    {[write |-> FALSE, path |-> <<>>, content |-> NoContent],
     [write |-> TRUE, path |-> VRoot \o <<"out">>, content |-> [tag |-> "py", len |-> 1]]}

NextDelete ==
    \/ \E e \in DeleteEffects : ExecutePython(1, e)
    \/ DeleteFile(2, <<"a">>)
    \/ SecureFsCall(2, "rm", <<"a">>, SecureFs_rm(hfs, <<"a">>, FALSE))
    \/ \E p \in {<<"a">>, <<"out">>} : ReadFile(3, p)
    \/ ListFiles(3, <<>>)

SpecDelete == InitFs /\ [][NextDelete]_vars

\* C37: once delete_file or a bash rm has removed the file a, no later operation that
\* does not write a puts it back on the host, and read_file of a fails.
C37_DeletionStays ==
    [][(calls[2].res.success /\ <<"ws", "a">> \notin DOMAIN hfs)
       => /\ <<"ws", "a">> \notin DOMAIN hfs'
          /\ (calls'[3].op = "read" /\ calls'[3].filePath = <<"a">>
              /\ calls'[3].n = calls[3].n + 1)
             => ~calls'[3].res.success]_vars

\* C38: on a workspace that began without symlinks, after any sequence of SecureFs
\* calls no symlink of the workspace resolves, followed through the filesystem, to a
\* place outside the workspace.
C38_NoLinkResolvesOutside ==
    \A p \in DOMAIN hfs :
        (hfs[p].kind = "link" /\ Confined(p))
        => \A r \in {Realpath(hfs, p)} : r.ok => Confined(r.path)

(***************************************************************************)
(* write_file calls that fail (PyodideManager.writeFile): the server is    *)
(* started, so initialize() has run, and callers write concurrently to an  *)
(* existing file, a new file, a new file in a new directory and to paths   *)
(* outside the workspace, with contents up to and over MAX_FILE_SIZE, on   *)
(* an empty and on a full workspace.                                       *)
(***************************************************************************)
WriteFailPaths ==
    RoundTripPaths \cup {<<".", ".", "/", "etc", "/", "passwd">>, <<"/", "etc", "/", "passwd">>}

WriteFailErrors == {ERR_FILE_TOO_LARGE, ERR_WORKSPACE_FULL, ERR_TRAVERSAL, ERR_DOTDOT}

InitWriteFail ==
    /\ hfs \in {RoundTripHost(n, 5) : n \in {0, FillFiles}}
    /\ mvfs = initialize(hfs, EmptyVfs, FALSE).vfs
    /\ mgrInit = TRUE
    /\ wvfs = EmptyVfs
    /\ touched = {}
    /\ calls = [c \in Callers |-> IdleCall]
    /\ ExecIdle
    /\ LockIdle
    /\ OutIdle

NextWriteFail ==
    \/ \E c \in {1, 2}, p \in WriteFailPaths, content \in QuotaContents : WriteFileCall(c, p, content)
    \/ \E c \in Callers : WriteFileCheck(c)
    \/ \E c \in Callers : WriteFileMeasure(c)
    \/ \E c \in Callers : WriteFileMkdir(c)
    \/ \E c \in Callers : WriteFileHostWrite(c)

SpecWriteFail == InitWriteFail /\ [][NextWriteFail]_vars

\* C39: a write_file call that fails with 'File too large', 'Workspace size limit
\* exceeded' or a path-validation error changes neither the host workspace nor the
\* virtual filesystem: none of its steps, from the call to the step that returns the
\* error, creates, truncates or modifies a file or creates a directory.
C39_FailedWriteChangesNothing ==
    [][\A c \in Callers :
          (/\ calls'[c] # calls[c]
           /\ calls'[c].op = "write"
           /\ \/ calls'[c].pc \in {"await_init", "await_size"}
              \/ calls'[c].res.done /\ calls'[c].res.error \in WriteFailErrors)
          => hfs' = hfs /\ mvfs' = mvfs]_vars

\* A write to d/new refused with 'Workspace size limit exceeded': the directory d is
\* neither on the host nor in the virtual filesystem.
C39_Witness ==
    /\ calls[1].op = "write"
    /\ calls[1].filePath = <<"d", "/", "new">>
    /\ calls[1].res.done
    /\ calls[1].res.error = ERR_WORKSPACE_FULL
    /\ <<"ws", "d">> \notin DOMAIN hfs
    /\ VNames(validatePath(<<"d">>).path) \notin DOMAIN mvfs

\* Writes refused with 'File too large' and with a path-validation error.
C39_WitnessOther ==
    /\ calls[1].op = "write" /\ calls[1].res.error = ERR_FILE_TOO_LARGE
    /\ calls[2].op = "write" /\ calls[2].res.error \in {ERR_TRAVERSAL, ERR_DOTDOT}

(***************************************************************************)
(* AsyncLock.acquire with callers that keep arriving: once an acquire has  *)
(* settled its caller may call acquire again.  The event loop runs the job *)
(* at the head of its queue, and every function that holds a lock settles. *)
(***************************************************************************)
\* A caller whose acquire has settled is ready to call acquire once more.
Again(p) ==
    /\ acq[p].pc = "settled"
    /\ acq' = [acq EXCEPT ![p] = IdleAcq]
    /\ UNCHANGED <<locks, waiters, jobs, clock>>
    /\ UNCHANGED <<fsVars, execVars, outVars>>

\* The event loop takes the job at the head of the queue.
RunJob == \E p \in Acquirers : RunCall(p) \/ RunWake(p) \/ RunRelease(p)

NextLockFair ==
    \/ \E p \in Acquirers, key \in Keys : Schedule(p, key, FALSE)
    \/ \E p \in Acquirers : RunCall(p)
    \/ \E p \in Acquirers : RunWake(p)
    \/ \E p \in Acquirers : FnSettle(p)
    \/ \E p \in Acquirers : RunRelease(p)
    \/ \E p \in Acquirers : Again(p)

SpecLockFair ==
    /\ InitLock
    /\ [][NextLockFair]_vars
    /\ WF_vars(RunJob)
    /\ \A p \in Acquirers : WF_vars(FnSettle(p))

\* C40: every acquire call eventually runs its function, given that every function
\* holding the lock settles: an acquirer that is scheduled or waiting for its key is
\* eventually running, even when other acquirers keep arriving for the same key.
C40_EveryAcquireRuns ==
    \A p \in Acquirers : (acq[p].pc \in {"scheduled", "waiting"}) ~> (acq[p].pc = "running")

=============================================================================
